---- MODULE Spec2Model ----
(***************************************************************************)
(* Model of alert-watcher2: the crash-dump pipeline (discover, compress,   *)
(* upload, verify, delete) of src/src/crash_dump_uploader and              *)
(* src/src/file_uploader, and the cluster command queue of                 *)
(* src/src/alert_watcher_agent/workflows.py.                               *)
(***************************************************************************)
EXTENDS Integers, Sequences, FiniteSets, TLC

\* ------------------------------------------------------------------ bounds
\* How many times a process inside the pod (the JVM) rewrites a file while
\* the pipeline runs.
MaxRewrites == 1

\* ------------------------------------------------------------- the pod side
\* statefulset_pods, in the order the workflow iterates them.
Pods == <<"db-0", "db-1">>

PodSet == {Pods[i] : i \in 1..Len(Pods)}

\* /resource/heapdump/java_pid1.hprof, the critical marker file.
Marker == "java_pid1.hprof"

\* A sibling flight recording in the same directory.
Sibling == "rec.jfr"

FileNames == {Marker, Sibling}

\* Sizes a file in the pod can have (bytes, abstracted).
Sizes == {1, 2}

VARIABLES
    heapdump_dir,   \* [pod -> BOOLEAN]: /resource/heapdump exists in the pod
    fs,             \* [pod -> [name -> [exists, size, gz]]]: the files in it
    rewrites,       \* rewrites done by the pod's own processes so far
    del,            \* the running safely_delete_file activity
    wf_pc,          \* CrashDumpUploadWorkflow: the step run() is at
    di,             \* index in statefulset_pods of the pod being discovered
    all_discovery_results,  \* [(pod, discovery_result)] so far
    all_processed_pods,     \* pod names whose discovery returned
    aws_credentials,        \* the credential set held by run(), 0 = none
    pi,             \* index in all_discovery_results of the pod in process
    fi,             \* index in its crash_dumps of the file in process
    cur,            \* the file in process: attempts made, results so far
    all_processing_results, \* [CrashDumpProcessingResult] so far
    wf_result,      \* what run() returned
    events,         \* the activities run() requested, in order
    cw,             \* ClusterWorkerWorkflow: its fields and where run() is at
    sent,           \* queue_command signals delivered to the worker so far
    last_signal,    \* the command of the last queue_command signal
    dispatched,     \* the commands the worker dispatched, in order
    inflight,       \* command executions started and not yet finished
    reports,        \* command_completed signals sent to the coordinator
    key_calls,      \* the destination keys computed so far, with their inputs
    activity_calls, \* activities called on their own: arguments and result
    kc,             \* one run of the activity execute_kubectl_command
    dcall,          \* one call of discover_crash_dumps on a directory
    co,             \* AgentCoordinatorWorkflow: its fields and where run() is at
    worker_alive,   \* [cluster -> BOOLEAN]: its cluster worker is running
    inbox,          \* [cluster -> the queue_command signals its worker got]
    received,       \* execute_command signals the coordinator got so far
    last_command,   \* the request of the last execute_command signal
    completions,    \* command_completed signals the coordinator got so far
    executing,      \* [cluster -> BOOLEAN]: its worker awaits a command's child
    done,           \* [cluster -> how many commands its worker has finished]
    at_shutdown,    \* [cluster -> what became of the command its worker was
                    \* running when the coordinator got the shutdown signal]
    alerts,         \* the alert buffer's storage: [buffer_id -> stored alert]
    stored,         \* number of store_alert calls so far (buffer ids handed out)
    expired_upto,   \* the alerts with a buffer_id up to this one are past expiry
    flush,          \* process_buffered_alerts: its position, batch and alert
    handed,         \* [buffer_id -> times the alert was handed to the processor]
    last_store      \* what the last store_alert call did

wfvars == <<wf_pc, di, all_discovery_results, all_processed_pods,
            aws_credentials, pi, fi, cur, all_processing_results,
            wf_result, events>>

qvars == <<cw, sent, last_signal, dispatched, inflight, reports>>

podvars == <<heapdump_dir, fs, rewrites, del, wfvars>>

keyvars == <<key_calls, activity_calls, kc, dcall>>

execvars == <<executing, done, at_shutdown>>

covars == <<co, worker_alive, inbox, received, last_command, completions, execvars>>

bufvars == <<alerts, stored, expired_upto, flush, handed, last_store>>

\* What a step of the pipeline, of the cluster worker, of the key computation
\* and of the coordinator leave alone.
nonpipelinevars == <<qvars, keyvars, covars, bufvars>>

nonqueuevars == <<podvars, keyvars, covars, bufvars>>

nonkeyvars == <<podvars, qvars, covars, bufvars>>

noncovars == <<podvars, qvars, keyvars, bufvars>>

nonbufvars == <<podvars, qvars, keyvars, covars>>


NoFile == [exists |-> FALSE, size |-> 0, gz |-> FALSE]

FileStates == {NoFile} \cup [exists : {TRUE}, size : Sizes, gz : BOOLEAN]
                       \cup [exists : {FALSE}, size : {0}, gz : {TRUE}]

\* ---------------------------------------------------------- file probes
\* file_exists_in_pod: `test -f path` through execute_command_in_pod_simple,
\* which turns a transport failure into exit code 1, so a probe that could
\* not run answers "absent".
OnDisk(pod, name, which) ==
    IF which = "orig" THEN fs[pod][name].exists ELSE fs[pod][name].gz

file_exists_in_pod(pod, name, which, transport_ok) ==
    transport_ok /\ OnDisk(pod, name, which)

\* get_file_info_in_pod: `stat -c "%s %Y" path`; raises when the exit code is
\* not 0 (file absent, or transport failure).  [ok, size].
get_file_info_in_pod(pod, name, transport_ok) ==
    IF transport_ok /\ fs[pod][name].exists
    THEN [ok |-> TRUE, size |-> fs[pod][name].size]
    ELSE [ok |-> FALSE, size |-> 0]

\* ------------------------------------------------- safely_delete_file
\* files_to_delete = [file_info.file_path, compressed_file['compressed_path']]
files_to_delete == <<"orig", "gz">>

DelIdle ==
    [pc |-> "idle", pod |-> Pods[1], name |-> Marker, file_size |-> 0,
     verified |-> FALSE, i |-> 0, existing_files |-> <<>>,
     deleted_files |-> <<>>, verified_deletions |-> <<>>,
     stat |-> "none", stat_size |-> 0, rm_issued |-> {}, removed |-> {},
     deleted |-> FALSE, error |-> "none"]

\* The activity's state when the runtime starts it with these arguments.
DelStarted(pod, name, file_size, verified) ==
    [DelIdle EXCEPT !.pc = "start", !.pod = pod, !.name = name,
                    !.file_size = file_size, !.verified = verified]

\* DeletionResult(deleted=..., error_message=...) returned to the caller.
DelReturn(d, deleted, error) ==
    [d EXCEPT !.pc = "returned", !.deleted = deleted, !.error = error]

\* if not verification_result['verified']: refuse.
VerifiedGate_Skipped(d) == TRUE

VerifiedGate(d) == d.verified

DelStart ==
    /\ del.pc = "start"
    /\ del' = IF ~VerifiedGate(del)
              THEN DelReturn(del, FALSE, "S3 upload not verified")
              ELSE [del EXCEPT !.pc = "probe", !.i = 1]
    /\ UNCHANGED <<heapdump_dir, fs, rewrites, wfvars, nonpipelinevars>>

\* for file_path in files_to_delete: if await file_exists_in_pod(...)
DelProbe ==
    /\ del.pc = "probe"
    /\ \E transport_ok \in BOOLEAN :
         LET path == files_to_delete[del.i]
             found == file_exists_in_pod(del.pod, del.name, path, transport_ok)
             existing == IF found THEN Append(del.existing_files, path)
                         ELSE del.existing_files
         IN del' =
              IF del.i < Len(files_to_delete)
              THEN [del EXCEPT !.existing_files = existing, !.i = del.i + 1]
              ELSE IF existing = <<>>
                   THEN DelReturn([del EXCEPT !.existing_files = existing],
                                  TRUE, "none")
                   ELSE [del EXCEPT !.existing_files = existing, !.pc = "stat"]
    /\ UNCHANGED <<heapdump_dir, fs, rewrites, wfvars, nonpipelinevars>>

\* if current_file_info.size != file_info.file_size: refuse.  A re-stat that
\* raised never reaches the comparison: the except branch logs a warning and
\* the deletion goes on.
SizeChanged_NoCompare(info, file_size) == FALSE

SizeChanged(info, file_size) == info.ok /\ info.size # file_size

DelStat ==
    /\ del.pc = "stat"
    /\ \E transport_ok \in BOOLEAN :
         LET info == get_file_info_in_pod(del.pod, del.name, transport_ok)
             d1 == [del EXCEPT !.stat = IF info.ok THEN "ok" ELSE "failed",
                               !.stat_size = info.size]
         IN del' =
              IF SizeChanged(info, del.file_size)
              THEN DelReturn(d1, FALSE, "File size changed")
              ELSE [d1 EXCEPT !.pc = "rm", !.i = 1]
    /\ UNCHANGED <<heapdump_dir, fs, rewrites, wfvars, nonpipelinevars>>

\* The file system after `rm -f path` ran in the pod.
Removed(pod, name, which) ==
    IF which = "orig"
    THEN [fs EXCEPT ![pod][name].exists = FALSE, ![pod][name].size = 0]
    ELSE [fs EXCEPT ![pod][name].gz = FALSE]

\* success = len(verified_deletions) == len(existing_files)
DelFinish(d) ==
    IF Len(d.verified_deletions) = Len(d.existing_files)
    THEN DelReturn(d, TRUE, "none")
    ELSE DelReturn(d, FALSE, "Deletion errors")

\* for file_path in existing_files: rm -f file_path; exit code 0 appends the
\* path to deleted_files, anything else is recorded as a deletion error.
DelRm ==
    /\ del.pc = "rm"
    /\ \E ran \in BOOLEAN :
         LET path == del.existing_files[del.i]
             d1 == [del EXCEPT !.rm_issued = @ \cup {path},
                               !.removed = IF ran THEN @ \cup {path} ELSE @,
                               !.deleted_files = IF ran THEN Append(@, path) ELSE @,
                               !.i = del.i + 1]
         IN /\ fs' = IF ran THEN Removed(del.pod, del.name, path) ELSE fs
            /\ del' = IF del.i < Len(del.existing_files) THEN d1
                      ELSE IF d1.deleted_files = <<>> THEN DelFinish(d1)
                      ELSE [d1 EXCEPT !.pc = "reprobe", !.i = 1]
    /\ UNCHANGED <<heapdump_dir, rewrites, wfvars, nonpipelinevars>>

\* for file_path in deleted_files: if not await file_exists_in_pod(...)
DelReprobe ==
    /\ del.pc = "reprobe"
    /\ \E transport_ok \in BOOLEAN :
         LET path == del.deleted_files[del.i]
             found == file_exists_in_pod(del.pod, del.name, path, transport_ok)
             d1 == [del EXCEPT !.verified_deletions =
                                   IF found THEN @ ELSE Append(@, path),
                               !.i = del.i + 1]
         IN del' = IF del.i < Len(del.deleted_files) THEN d1 ELSE DelFinish(d1)
    /\ UNCHANGED <<heapdump_dir, fs, rewrites, wfvars, nonpipelinevars>>

\* A process of the pod rewrites a file (the JVM is still writing the dump).
\* Only a rewrite of the file in process is modelled: one before the file's
\* turn acts like one at the start of its turn, one after it is never seen.
InProcess(pod, name) ==
    \/ wf_pc = "none" /\ pod = del.pod /\ name = del.name
    \/ /\ wf_pc \in {"compress", "upload", "verify", "await_delete"}
       /\ pod = all_discovery_results[pi].pod
       /\ name = all_discovery_results[pi].result.crash_dumps[fi].file_path

Rewrite ==
    /\ rewrites < MaxRewrites
    /\ \E pod \in PodSet, name \in FileNames, size \in Sizes :
         /\ InProcess(pod, name)
         /\ fs[pod][name].exists
         /\ fs[pod][name].size # size
         /\ fs' = [fs EXCEPT ![pod][name].size = size]
    /\ rewrites' = rewrites + 1
    /\ UNCHANGED <<heapdump_dir, del, wfvars, nonpipelinevars>>


\* ------------------------------------------------ discover_crash_dumps
CrashDumpFile(pod, name, size, type) ==
    [pod_name |-> pod, file_path |-> name, file_size |-> size, file_type |-> type]

CrashDumpDiscoveryResult(crash_dumps, requires_upload, message) ==
    [crash_dumps |-> crash_dumps, requires_upload |-> requires_upload,
     message |-> message]

\* The part of a file name after its last dot.
Extension(name) ==
    CASE name = Marker -> "hprof"
      [] name = Sibling -> "jfr"
      [] name = "heap2.hprof" -> "hprof"
      [] name = "sub/java_pid1.hprof" -> "hprof"
      [] name = "rec.jfr.gz" -> "gz"
      [] name = "core.dump" -> "dump"
      [] name = "hs_err.log" -> "log"
      [] OTHER -> name

\* The order in which `find` lists the directory.
FindOrder == <<Marker, Sibling>>

\* find heapdump_dir -type f ( -name *.hprof -o -name *.jfr ) ! -name *.gz
FindOutput(pod) == SelectSeq(FindOrder, LAMBDA n : fs[pod][n].exists)

\* The loop over the found files: the marker is skipped, a file whose stat
\* fails is skipped with a warning, the others are typed by their extension.
RECURSIVE AdditionalDumps(_, _, _, _)
AdditionalDumps(pod, found, exclude_path, file_info) ==
    IF found = <<>> THEN <<>>
    ELSE LET f == Head(found)
             rest == AdditionalDumps(pod, Tail(found), exclude_path, file_info)
             info == file_info[f]
             type == IF Extension(f) = "hprof" THEN "additional_hprof"
                     ELSE IF Extension(f) = "jfr" THEN "jfr" ELSE "unknown"
         IN IF f = exclude_path THEN rest
            ELSE IF ~info.ok THEN rest
            ELSE <<CrashDumpFile(pod, f, info.size, type)>> \o rest

AdditionalDumps_AllOrNothing(pod, found, exclude_path, file_info) ==
    IF \E k \in 1..Len(found) : ~file_info[found[k]].ok THEN <<>>
    ELSE AdditionalDumps(pod, found, exclude_path, file_info)

FoundAdditional_NoExclude(pod, found, exclude_path, file_info) ==
    AdditionalDumps(pod, found, "", file_info)

\* The loop of _find_additional_crash_dump_files over the output of find,
\* given what get_file_info_in_pod answers for each file.
FoundAdditional(pod, found, exclude_path, file_info) ==
    AdditionalDumps(pod, found, exclude_path, file_info)

_find_additional_crash_dump_files(pod, exclude_path, find_ok, stat_ok) ==
    IF ~find_ok THEN <<>>
    ELSE FoundAdditional(pod, FindOutput(pod), exclude_path,
                         [n \in FileNames |-> get_file_info_in_pod(pod, n, stat_ok)])

\* _check_heapdump_directory: `ls -la` exits 0.
_check_heapdump_directory(pod, transport_ok) == transport_ok /\ heapdump_dir[pod]

\* What each remote command of one discovery meets: TRUE = the transport
\* worked, FALSE = execute_command_in_pod_simple reported exit code 1.
ProbeOutcomes == [dir : BOOLEAN, probe : BOOLEAN, stat : BOOLEAN,
                  find : BOOLEAN, sib : BOOLEAN]

\* The body of discover_crash_dumps, given what its probes answered:
\* `ls -la` of the directory, `test -f` and `stat` of the marker file, and
\* the additional files.
DiscoveryResult(pod, dir_exists, java_pid1_exists, java_pid1_info, additional_dumps) ==
    IF ~dir_exists
    THEN CrashDumpDiscoveryResult(<<>>, FALSE, "Heapdump directory not found")
    ELSE IF ~java_pid1_exists
    THEN CrashDumpDiscoveryResult(<<>>, FALSE, "No java_pid1.hprof found")
    ELSE IF ~java_pid1_info.ok
    THEN CrashDumpDiscoveryResult(<<>>, FALSE, "Discovery failed")
    ELSE CrashDumpDiscoveryResult(
           <<CrashDumpFile(pod, Marker, java_pid1_info.size, "java_pid1.hprof")>>
             \o additional_dumps,
           TRUE, "Found crash dump files requiring upload")

discover_crash_dumps(pod, o) ==
    DiscoveryResult(pod,
                    _check_heapdump_directory(pod, o.dir),
                    file_exists_in_pod(pod, Marker, "orig", o.probe),
                    get_file_info_in_pod(pod, Marker, o.stat),
                    _find_additional_crash_dump_files(pod, Marker, o.find, o.sib))

\* ------------------------------------------------ the workflow's results
RECURSIVE SumSizes(_)
SumSizes(dumps) ==
    IF dumps = <<>> THEN 0 ELSE Head(dumps).file_size + SumSizes(Tail(dumps))

\* CrashDumpDiscoveryResult.total_size
total_size(discovery_result) == SumSizes(discovery_result.crash_dumps)

NoDeletion == [present |-> FALSE, deleted |-> FALSE, error |-> "none"]

S3UploadResult(success, s3_key, error_message) ==
    [success |-> success, s3_key |-> s3_key, error_message |-> error_message]

CrashDumpProcessingResult(crash_dump, upload_result, verification_passed, deletion_result) ==
    [crash_dump |-> crash_dump, upload_result |-> upload_result,
     verification_passed |-> verification_passed,
     deletion_result |-> deletion_result]

\* CrashDumpProcessingResult.success
CrashDumpProcessingResult_success(r) ==
    /\ r.upload_result.success
    /\ r.verification_passed
    /\ (~r.deletion_result.present \/ r.deletion_result.deleted)

NoResult ==
    [returned |-> FALSE, success |-> FALSE, processed_pods |-> <<>>,
     uploaded_files |-> <<>>, processing_results |-> <<>>, errors |-> <<>>,
     total_size_bytes |-> 0, upload_count |-> 0, deletion_count |-> 0]

\* The except branch of run(): the invocation failed as a whole.
FailedResult(error) ==
    [NoResult EXCEPT !.returned = TRUE, !.processed_pods = Pods,
                     !.errors = <<error>>]

\* The early return of run() when total_crash_dumps == 0.
NoCrashDumpsResult(processed_pods) ==
    [NoResult EXCEPT !.returned = TRUE, !.success = TRUE,
                     !.processed_pods = processed_pods]

\* total_size_bytes += discovery_result.total_size, for the pods that
\* require upload.
RECURSIVE TotalSizeBytes(_)
TotalSizeBytes(discoveries) ==
    IF discoveries = <<>> THEN 0
    ELSE (IF Head(discoveries).result.requires_upload
          THEN total_size(Head(discoveries).result) ELSE 0)
         + TotalSizeBytes(Tail(discoveries))

_generate_statefulset_final_result(processed_pods, processing_results, size_bytes) ==
    LET upload_failed(r) == ~r.upload_result.success
        upload_succeeded(r) == r.upload_result.success
        was_deleted(r) == r.deletion_result.present /\ r.deletion_result.deleted
        failed == SelectSeq(processing_results, upload_failed)
    IN [returned |-> TRUE,
        success |-> \A k \in 1..Len(processing_results) :
                        processing_results[k].upload_result.success,
        processed_pods |-> processed_pods,
        uploaded_files |-> [k \in 1..Len(processing_results) |->
                              processing_results[k].upload_result],
        processing_results |-> processing_results,
        errors |-> [k \in 1..Len(failed) |->
                      IF failed[k].upload_result.error_message = <<>>
                      THEN <<"S3 upload failed">>
                      ELSE failed[k].upload_result.error_message],
        total_size_bytes |-> size_bytes,
        upload_count |-> Len(SelectSeq(processing_results, upload_succeeded)),
        deletion_count |-> Len(SelectSeq(processing_results, was_deleted))]

\* ------------------------------------------------ the per-file activities
\* maximum_attempts of the compress_file retry policy.
CompressMaxAttempts == 2

\* The destination key: {pod}-java_pid1.hprof.gz, {pod}.hprof.gz, {pod}.jfr,
\* or {pod}.{extension}.gz for a file type the workflow does not know.
S3Key(pod, crash_dump) ==
    IF crash_dump.file_type = "java_pid1.hprof" THEN <<pod, "-java_pid1.hprof.gz">>
    ELSE IF crash_dump.file_type = "additional_hprof" THEN <<pod, ".hprof.gz">>
    ELSE IF crash_dump.file_type = "jfr" THEN <<pod, ".jfr">>
    ELSE <<pod, ".", Extension(crash_dump.file_path), ".gz">>

\* What the upload helper may leave on stderr when it fails: nothing, or a
\* text that names the file.  A message is the sequence of its parts, <<>>
\* stands for None and for the empty string.
Stderrs(file_path) == {<<>>, <<"stderr", file_path>>}

upload_file_to_s3_Unguarded(s3_key, copy_ok, exit_ok, stderr) ==
    IF ~copy_ok THEN [raised |-> <<"Failed to copy flanker.py to pod">>]
    ELSE S3UploadResult(exit_ok, s3_key, IF exit_ok THEN <<>> ELSE stderr)

\* upload_file_to_s3: success only when the script was copied and the helper
\* exited 0; every failure is returned in the result, none is raised.
upload_file_to_s3(s3_key, copy_ok, exit_ok, stderr) ==
    IF ~copy_ok THEN S3UploadResult(FALSE, s3_key, <<"Failed to copy flanker.py to pod">>)
    ELSE IF ~exit_ok THEN S3UploadResult(FALSE, s3_key, stderr)
    ELSE S3UploadResult(TRUE, s3_key, <<>>)

\* dict.get(key, default)
Get(dict, key, default) == IF key \in DOMAIN dict THEN dict[key] ELSE default

verify_s3_upload_TrustsAll(s3_upload_result) ==
    [verified |-> TRUE, s3_key |-> Get(s3_upload_result, "s3_key", <<>>),
     verification_method |-> "flanker_internal"]

\* verify_s3_upload: trusts the helper's own report, which it reads with
\* s3_upload_result.get('success', False).  Both branches return the
\* verification_method "flanker_internal".
verify_s3_upload(s3_upload_result) ==
    [verified |-> Get(s3_upload_result, "success", FALSE),
     s3_key |-> Get(s3_upload_result, "s3_key", <<>>),
     verification_method |-> "flanker_internal"]

Gzipped_NoKeep(pod, name, gzip_ok) ==
    [fs EXCEPT ![pod][name] =
        [exists |-> FALSE, size |-> 0, gz |-> gzip_ok /\ fs[pod][name].exists]]

\* The file system after `rm -f path.gz && gzip -k path || :` ran in the pod.
Gzipped(pod, name, gzip_ok) ==
    [fs EXCEPT ![pod][name].gz = gzip_ok /\ fs[pod][name].exists]

\* ------------------------------------------- CrashDumpUploadWorkflow.run
FreshCur == [attempt |-> 1, upload_result |-> S3UploadResult(FALSE, <<>>, <<>>)]

Event(kind, pod, name, cred) ==
    [kind |-> kind, pod |-> pod, name |-> name, cred |-> cred]

\* total_crash_dumps: the files of the pods whose discovery requires upload.
RECURSIVE total_crash_dumps(_)
total_crash_dumps(discoveries) ==
    IF discoveries = <<>> THEN 0
    ELSE (IF Head(discoveries).result.requires_upload
          THEN Len(Head(discoveries).result.crash_dumps) ELSE 0)
         + total_crash_dumps(Tail(discoveries))

\* The next pod at or after index `from` whose discovery requires upload; 0
\* when there is none.
NextPod(from) ==
    LET S == {k \in from..Len(all_discovery_results) :
                 all_discovery_results[k].result.requires_upload}
    IN IF S = {} THEN 0 ELSE CHOOSE k \in S : \A j \in S : k <= j

CurPod == all_discovery_results[pi].pod

CurDump == all_discovery_results[pi].result.crash_dumps[fi]

\* The outer except branch of run(): whatever was done so far is dropped.
WorkflowFailed(error) ==
    /\ wf_pc' = "done"
    /\ wf_result' = FailedResult(error)

\* processing_results.append(result), then the next file of the pod, the next
\* pod that requires upload, or the final result.
RecordAndAdvance(result) ==
    LET results == Append(all_processing_results, result)
        more == fi < Len(all_discovery_results[pi].result.crash_dumps)
        np == NextPod(pi + 1)
    IN /\ all_processing_results' = results
       /\ cur' = FreshCur
       /\ IF more
          THEN /\ fi' = fi + 1
               /\ wf_pc' = "compress"
               /\ UNCHANGED <<pi, wf_result>>
          ELSE IF np # 0
          THEN /\ pi' = np
               /\ fi' = 1
               /\ wf_pc' = "compress"
               /\ UNCHANGED wf_result
          ELSE /\ wf_pc' = "done"
               /\ wf_result' = _generate_statefulset_final_result(
                                   all_processed_pods, results,
                                   TotalSizeBytes(all_discovery_results))
               /\ UNCHANGED <<pi, fi>>

\* for pod in statefulset_pods: execute_activity(discover_crash_dumps); after
\* the last pod either the early return or the credential request.
Discover ==
    /\ wf_pc = "discover"
    /\ events' = Append(events, Event("discover", Pods[di], "", 0))
    /\ \E returned \in BOOLEAN, o \in ProbeOutcomes :
         IF ~returned
         THEN /\ WorkflowFailed(<<"discover_crash_dumps failed">>)
              /\ UNCHANGED <<di, all_discovery_results, all_processed_pods>>
         ELSE LET r == discover_crash_dumps(Pods[di], o)
                  discoveries == Append(all_discovery_results,
                                        [pod |-> Pods[di], result |-> r])
                  processed == Append(all_processed_pods, Pods[di])
              IN /\ all_discovery_results' = discoveries
                 /\ all_processed_pods' = processed
                 /\ IF di < Len(Pods)
                    THEN /\ di' = di + 1
                         /\ UNCHANGED <<wf_pc, wf_result>>
                    ELSE /\ di' = di
                         /\ IF total_crash_dumps(discoveries) = 0
                            THEN /\ wf_pc' = "done"
                                 /\ wf_result' = NoCrashDumpsResult(processed)
                            ELSE /\ wf_pc' = "credentials"
                                 /\ UNCHANGED wf_result
    /\ UNCHANGED <<heapdump_dir, fs, rewrites, del, aws_credentials, pi, fi,
                   cur, all_processing_results, nonpipelinevars>>

\* execute_activity(get_upload_credentials), once for the invocation.
GetCredentials ==
    /\ wf_pc = "credentials"
    /\ events' = Append(events, Event("credentials", "", "", 0))
    /\ \E returned \in BOOLEAN :
         IF ~returned
         THEN /\ WorkflowFailed(<<"get_upload_credentials failed">>)
              /\ UNCHANGED <<aws_credentials, pi, fi>>
         ELSE /\ aws_credentials' = aws_credentials + 1
              /\ pi' = NextPod(1)
              /\ fi' = 1
              /\ wf_pc' = "compress"
              /\ UNCHANGED wf_result
    /\ UNCHANGED <<heapdump_dir, fs, rewrites, del, di, all_discovery_results,
                   all_processed_pods, cur, all_processing_results, nonpipelinevars>>

failed_result_Verified(crash_dump, error) ==
    CrashDumpProcessingResult(crash_dump, S3UploadResult(FALSE, <<>>, error),
                              TRUE, NoDeletion)

\* The except branch of _process_all_crash_dumps: a failed result stands in
\* for the file.
failed_result(crash_dump, error) ==
    CrashDumpProcessingResult(crash_dump, S3UploadResult(FALSE, <<>>, error),
                              FALSE, NoDeletion)

\* execute_activity(compress_file): each attempt runs the gzip command, then
\* probes and stats the compressed path; it raises when either fails, and the
\* runtime retries up to maximum_attempts.  An outcome that is never looked
\* at (gzip's when the command did not run, the stat's after a failed probe)
\* is taken as TRUE, so that each behaviour of the attempt is drawn once.
Compress ==
    /\ wf_pc = "compress"
    /\ events' = IF cur.attempt = 1
                 THEN Append(events, Event("compress", CurPod, CurDump.file_path,
                                           aws_credentials))
                 ELSE events
    /\ \E ran \in BOOLEAN, gzip_ok \in BOOLEAN, probe_ok \in BOOLEAN,
          stat_ok \in BOOLEAN :
         IF ~((~ran => gzip_ok) /\ (~probe_ok => stat_ok)) THEN FALSE ELSE
         LET name == CurDump.file_path
             fs1 == IF ran THEN Gzipped(CurPod, name, gzip_ok) ELSE fs
             compressed == probe_ok /\ fs1[CurPod][name].gz /\ stat_ok
         IN /\ fs' = fs1
            /\ IF compressed
               THEN /\ wf_pc' = "upload"
                    /\ cur' = [cur EXCEPT !.attempt = 1]
                    /\ UNCHANGED <<pi, fi, all_processing_results, wf_result>>
               ELSE IF cur.attempt < CompressMaxAttempts
               THEN /\ cur' = [cur EXCEPT !.attempt = @ + 1]
                    /\ UNCHANGED <<wf_pc, pi, fi, all_processing_results, wf_result>>
               ELSE RecordAndAdvance(failed_result(CurDump, <<"Compression failed">>))
    /\ UNCHANGED <<heapdump_dir, rewrites, del, di, all_discovery_results,
                   all_processed_pods, aws_credentials, nonpipelinevars>>

\* `if upload_result.success:` guards verification and deletion.
UploadSucceeded_Always(upload_result) == TRUE

UploadSucceeded(upload_result) == upload_result.success

\* maximum_attempts of the upload_file_to_s3 retry policy.
UploadMaxAttempts == 3

\* execute_activity(upload_file_to_s3).  The runtime runs an activity again
\* when the attempt raised or timed out, while attempts are left, and never
\* when it returned.  upload_file_to_s3 does not raise: an attempt that times
\* out is retried up to maximum_attempts, then execute_activity raises and the
\* file gets the failed result of _process_all_crash_dumps; an attempt that
\* returns ends the activity, whatever its result says.  A failed upload skips
\* verification and deletion of this file.  An outcome that is never looked at
\* (the helper's after a time-out or a failed copy, stderr after exit 0) is
\* fixed, so that each behaviour of the attempt is drawn once.
Upload ==
    /\ wf_pc = "upload"
    /\ events' = IF cur.attempt = 1
                 THEN Append(events, Event("upload", CurPod, CurDump.file_path,
                                           aws_credentials))
                 ELSE events
    /\ \E timed_out \in BOOLEAN, copy_ok \in BOOLEAN, exit_ok \in BOOLEAN,
          stderr \in Stderrs(CurDump.file_path) :
         IF ~((timed_out => copy_ok /\ exit_ok) /\ (~copy_ok => exit_ok)
              /\ (exit_ok => stderr = <<>>))
         THEN FALSE ELSE
         LET upload_result == upload_file_to_s3(S3Key(CurPod, CurDump),
                                                copy_ok, exit_ok, stderr)
         IN IF timed_out
            THEN IF cur.attempt < UploadMaxAttempts
                 THEN /\ cur' = [cur EXCEPT !.attempt = @ + 1]
                      /\ UNCHANGED <<wf_pc, pi, fi, all_processing_results,
                                     wf_result>>
                 ELSE RecordAndAdvance(
                        failed_result(CurDump, <<"Activity task timed out">>))
            ELSE IF UploadSucceeded(upload_result)
            THEN /\ wf_pc' = "verify"
                 /\ cur' = [cur EXCEPT !.upload_result = upload_result,
                                       !.attempt = 1]
                 /\ UNCHANGED <<pi, fi, all_processing_results, wf_result>>
            ELSE RecordAndAdvance(
                   CrashDumpProcessingResult(CurDump, upload_result, FALSE,
                                             NoDeletion))
    /\ UNCHANGED <<heapdump_dir, fs, rewrites, del, di, all_discovery_results,
                   all_processed_pods, aws_credentials, nonpipelinevars>>

\* execute_activity(verify_s3_upload); only a passed verification goes on to
\* execute_activity(safely_delete_file).
Verify ==
    /\ wf_pc = "verify"
    /\ LET verification_result == verify_s3_upload(cur.upload_result)
           asked == Append(events, Event("verify", CurPod, CurDump.file_path,
                                         aws_credentials))
       IN IF verification_result.verified
          THEN /\ events' = Append(asked, Event("delete", CurPod,
                                                CurDump.file_path, 0))
               /\ del' = DelStarted(CurPod, CurDump.file_path,
                                    CurDump.file_size,
                                    verification_result.verified)
               /\ wf_pc' = "await_delete"
               /\ UNCHANGED <<pi, fi, cur, all_processing_results, wf_result>>
          ELSE /\ events' = asked
               /\ del' = del
               /\ RecordAndAdvance(
                    CrashDumpProcessingResult(CurDump, cur.upload_result, FALSE,
                                              NoDeletion))
    /\ UNCHANGED <<heapdump_dir, fs, rewrites, di, all_discovery_results,
                   all_processed_pods, aws_credentials, nonpipelinevars>>

\* safely_delete_file returned: its DeletionResult completes the file's
\* CrashDumpProcessingResult.
DeleteReturned ==
    /\ wf_pc = "await_delete"
    /\ del.pc = "returned"
    /\ RecordAndAdvance(
         CrashDumpProcessingResult(
           CurDump, cur.upload_result, TRUE,
           [present |-> TRUE, deleted |-> del.deleted, error |-> del.error]))
    /\ del' = DelIdle
    /\ UNCHANGED <<heapdump_dir, fs, rewrites, di, all_discovery_results,
                   all_processed_pods, aws_credentials, events, nonpipelinevars>>

\* ------------------------------------------------ ClusterWorkerWorkflow
\* How many queue_command signals the worker receives.
MaxCommands == 3

\* _should_continue_as_new: total_processed > 1000 in the code; the model
\* scales the threshold down so that a restart is reached.
ContinueAsNewThreshold == 1

AlertIds == {"A1", "A2", "A3"}

Priorities == {0, 1}

NoCommand == [alert_id |-> "", priority |-> 0, uid |-> 0]

\* ClusterWorkerWorkflow.__init__, and run() at the top of its loop.
WorkerStarted ==
    [pc |-> "loop", command_queue |-> <<>>, processing |-> FALSE,
     current_command |-> NoCommand, total_processed |-> 0, total_failed |-> 0,
     is_running |-> TRUE]

\* command_queue.sort(key=priority, reverse=True): a stable sort, so commands
\* of equal priority keep the order in which they were appended.
RECURSIVE InsertByPriority(_, _)
InsertByPriority(c, sorted) ==
    IF sorted = <<>> THEN <<c>>
    ELSE IF Head(sorted).priority <= c.priority THEN <<c>> \o sorted
    ELSE <<Head(sorted)>> \o InsertByPriority(c, Tail(sorted))

RECURSIVE SortByPriority(_)
SortByPriority_Unsorted(queue) == queue

SortByPriority(queue) ==
    IF queue = <<>> THEN <<>>
    ELSE InsertByPriority(Head(queue), SortByPriority(Tail(queue)))

\* queue_command: a request whose alert_id is already in the queue is
\* ignored, any other is appended.
queue_command_NoDuplicateCheck(command_queue, request) ==
    Append(command_queue, request)

queue_command(command_queue, request) ==
    IF \E k \in 1..Len(command_queue) :
           command_queue[k].alert_id = request.alert_id
    THEN command_queue
    ELSE Append(command_queue, request)

\* result_dict = await execute_child_workflow(...): _process_command_queue
\* is suspended until the child workflow has finished.
AwaitsChild_StartOnly == FALSE

AwaitsChild == TRUE

_should_continue_as_new(w) == w.total_processed > ContinueAsNewThreshold

Finally_NoClear(w) == w

\* The finally branch of _process_command_queue.
Finally(w) == [w EXCEPT !.processing = FALSE, !.current_command = NoCommand]

\* After _process_command_queue returned: workflow.continue_as_new(...) when
\* the threshold is passed, else sleep(10).  continue_as_new works by raising;
\* either the error leaves run() and the worker starts afresh from __init__,
\* or the loop's `except Exception` catches it and the worker sleeps on.
AfterProcessing(w) ==
    IF _should_continue_as_new(w)
    THEN {WorkerStarted, [w EXCEPT !.pc = "sleep"]}
    ELSE {[w EXCEPT !.pc = "sleep"]}

\* The signal handler queue_command.
QueueCommand ==
    /\ sent < MaxCommands
    /\ cw.pc # "completed"
    /\ \E a \in AlertIds, p \in Priorities :
         LET request == [alert_id |-> a, priority |-> p, uid |-> sent + 1]
         IN /\ cw' = [cw EXCEPT !.command_queue = queue_command(@, request)]
            /\ last_signal' = request
    /\ sent' = sent + 1
    /\ UNCHANGED <<dispatched, inflight, reports, nonqueuevars>>

\* The signal handler shutdown.
WorkerShutdown ==
    /\ cw.is_running
    /\ cw.pc # "completed"
    /\ cw' = [cw EXCEPT !.is_running = FALSE]
    /\ UNCHANGED <<sent, last_signal, dispatched, inflight, reports, nonqueuevars>>

\* One turn of `while self.is_running`: _process_command_queue up to its
\* first await, or all of it when there is nothing to dispatch.
ProcessCommandQueue ==
    /\ cw.pc = "loop"
    /\ IF ~cw.is_running
       THEN /\ cw' = [cw EXCEPT !.pc = "completed"]
            /\ UNCHANGED <<dispatched, inflight>>
       ELSE IF cw.command_queue = <<>> \/ cw.processing
       THEN /\ cw' \in AfterProcessing(cw)
            /\ UNCHANGED <<dispatched, inflight>>
       ELSE LET sorted == SortByPriority(cw.command_queue)
                request == Head(sorted)
                w == [cw EXCEPT !.command_queue = Tail(sorted),
                                !.processing = TRUE,
                                !.current_command = request]
            IN /\ dispatched' = Append(dispatched, request)
               /\ inflight' = inflight + 1
               /\ IF AwaitsChild
                  THEN cw' = [w EXCEPT !.pc = "child"]
                  ELSE cw' \in AfterProcessing(Finally(w))
    /\ UNCHANGED <<sent, last_signal, reports, nonqueuevars>>

\* The child workflow finished: with a success response, with a failure
\* response, or by raising.
ChildFinished ==
    /\ cw.pc = "child"
    /\ inflight' = inflight - 1
    /\ \E outcome \in {"success", "failure", "raised"} :
         IF outcome = "raised"
         THEN cw' \in AfterProcessing(
                        Finally([cw EXCEPT !.total_failed = @ + 1]))
         ELSE cw' = [cw EXCEPT !.total_processed = @ + 1,
                               !.total_failed = IF outcome = "failure"
                                                THEN @ + 1 ELSE @,
                               !.pc = IF outcome = "success"
                                      THEN "signal_success" ELSE "signal_failure"]
    /\ UNCHANGED <<sent, last_signal, dispatched, reports, nonqueuevars>>

\* await coordinator_handle.signal("command_completed", result_dict): sent, or
\* it raises and the except branch counts one more failure.
SignalCoordinator ==
    /\ cw.pc \in {"signal_success", "signal_failure"}
    /\ \E delivered \in BOOLEAN :
         IF delivered
         THEN /\ reports' = Append(reports,
                              [alert_id |-> cw.current_command.alert_id,
                               success |-> cw.pc = "signal_success"])
              /\ cw' \in AfterProcessing(Finally(cw))
         ELSE /\ reports' = reports
              /\ cw' \in AfterProcessing(
                           Finally([cw EXCEPT !.total_failed = @ + 1]))
    /\ UNCHANGED <<sent, last_signal, dispatched, inflight, nonqueuevars>>

\* workflow.sleep(...) is over.
WakeUp ==
    /\ cw.pc = "sleep"
    /\ cw' = [cw EXCEPT !.pc = "loop"]
    /\ UNCHANGED <<sent, last_signal, dispatched, inflight, reports, nonqueuevars>>


\* ------------------------------------------------ AgentCoordinatorWorkflow
\* How many execute_command signals the coordinator receives.
MaxRouted == 3

\* _should_continue_as_new: total_commands_processed > 1000 in the code; the
\* model scales the threshold down so that a restart is reached.
CoContinueAsNewThreshold == 1

\* _perform_maintenance: history_threshold = 1000 in the code, scaled down.
HistoryThreshold == 2

\* config_dict["supported_clusters"]
supported_clusters == <<"c1", "c2">>

Clusters == {supported_clusters[k] : k \in 1..Len(supported_clusters)}

\* The cluster_context values a command may carry: "cX" is not configured.
Contexts == Clusters \cup {"cX"}

CoAlertIds == {"A1"}

NoRequest == [alert_id |-> "", cluster_context |-> "", correlation_id |-> 0]

\* AgentCoordinatorWorkflow.__init__, and run() before _start_cluster_workflows.
CoordinatorStarted ==
    [pc |-> "boot", bi |-> 1, cluster_workflows |-> {}, is_running |-> TRUE,
     total_commands_processed |-> 0, total_commands_failed |-> 0,
     command_history |-> <<>>]

\* The last n entries of a list: history[-n:], which is the whole list for
\* n = 0.
LastEntries(history, n) ==
    IF Len(history) <= n \/ n = 0 THEN history
    ELSE SubSeq(history, Len(history) - n + 1, Len(history))

_perform_maintenance_NoCompaction(c) == c

\* _perform_maintenance: a history longer than the threshold is cut to its
\* most recent half-threshold entries.
_perform_maintenance(c) ==
    IF Len(c.command_history) > HistoryThreshold
    THEN [c EXCEPT !.command_history = LastEntries(@, HistoryThreshold \div 2)]
    ELSE c

\* AgentCoordinatorWorkflow._should_continue_as_new
Co_should_continue_as_new(c) ==
    \/ c.total_commands_processed > CoContinueAsNewThreshold
    \/ Len(c.command_history) > HistoryThreshold

\* One turn of the loop in _start_cluster_workflows: start_child_workflow for
\* the next configured cluster; when it raises, the cluster is skipped and no
\* handle is stored.  A worker still running under the same workflow id
\* cannot be started again.
StartClusterWorkflow ==
    /\ co.pc = "boot"
    /\ LET cluster_context == supported_clusters[co.bi]
           after == [co EXCEPT !.bi = @ + 1,
                               !.pc = IF co.bi < Len(supported_clusters)
                                      THEN "boot" ELSE "loop"]
       IN \E started \in BOOLEAN :
            /\ started => ~worker_alive[cluster_context]
            /\ IF started
               THEN /\ worker_alive' = [worker_alive EXCEPT ![cluster_context] = TRUE]
                    /\ co' = [after EXCEPT !.cluster_workflows =
                                               @ \cup {cluster_context}]
               ELSE /\ worker_alive' = worker_alive
                    /\ co' = after
    /\ UNCHANGED <<inbox, received, last_command, completions, execvars, noncovars>>

\* _monitor_cluster_workflows: the body of its loop is `pass`.
_monitor_cluster_workflows(c) == c

\* One turn of `while self.is_running` in AgentCoordinatorWorkflow.run:
\* monitor, maintenance, then continue_as_new or sleep.  continue_as_new works
\* by raising: either the error leaves run() and the coordinator starts afresh
\* from __init__ (the runtime may end its children with it), or the loop's
\* `except Exception` catches it and the coordinator sleeps on.
CoordinatorLoop ==
    /\ co.pc = "loop"
    /\ IF ~co.is_running
       THEN /\ co' = [co EXCEPT !.pc = "completed"]
            /\ worker_alive' = worker_alive
       ELSE LET c == _perform_maintenance(_monitor_cluster_workflows(co))
            IN IF Co_should_continue_as_new(c)
               THEN \/ /\ co' = CoordinatorStarted
                       /\ worker_alive' \in [Clusters -> BOOLEAN]
                       /\ \A k \in Clusters : worker_alive'[k] => worker_alive[k]
                    \/ /\ co' = [c EXCEPT !.pc = "sleep"]
                       /\ worker_alive' = worker_alive
               ELSE /\ co' = [c EXCEPT !.pc = "sleep"]
                    /\ worker_alive' = worker_alive
    /\ executing' = [k \in Clusters |-> executing[k] /\ worker_alive'[k]]
    /\ UNCHANGED <<inbox, received, last_command, completions, done,
                   at_shutdown, noncovars>>

\* workflow.sleep(...) of the coordinator is over.
CoordinatorWakeUp ==
    /\ co.pc = "sleep"
    /\ co' = [co EXCEPT !.pc = "loop"]
    /\ UNCHANGED <<worker_alive, inbox, received, last_command, completions, execvars, noncovars>>

\* `request.cluster_context not in self.supported_clusters`, negated
IsSupported(cluster_context) == cluster_context \in Clusters

Rejected_Counted(c, request) == [c EXCEPT !.total_commands_processed = @ + 1]

\* The early return for an unsupported cluster: an error is logged and no
\* field of the coordinator is touched.
Rejected(c, request) == c

RouteTo_First(request) == supported_clusters[1]

\* handle = self.cluster_workflows[request.cluster_context]
RouteTo(request) == request.cluster_context

\* "Track command": the routed counter and the history entry.
Tracked(c, request) ==
    [c EXCEPT !.total_commands_processed = @ + 1,
              !.command_history =
                  Append(@, [alert_id |-> request.alert_id,
                             cluster_context |-> request.cluster_context,
                             correlation_id |-> request.correlation_id])]

\* The signal handler execute_command.  handle.signal raises when the worker
\* it addresses is no longer running; the except branch then only logs, and
\* the tracking after the await is not reached.
ExecuteCommand ==
    /\ received < MaxRouted
    /\ co.pc # "completed"
    /\ received' = received + 1
    /\ \E a \in CoAlertIds, cluster_context \in Contexts :
         LET request == [alert_id |-> a, cluster_context |-> cluster_context,
                         correlation_id |-> received + 1]
         IN /\ last_command' = request
            /\ IF ~IsSupported(request.cluster_context)
               THEN /\ co' = Rejected(co, request)
                    /\ inbox' = inbox
               ELSE IF request.cluster_context \in co.cluster_workflows
                       /\ worker_alive[RouteTo(request)]
               THEN /\ inbox' = [inbox EXCEPT ![RouteTo(request)] =
                                                 Append(@, request)]
                    /\ co' = Tracked(co, request)
               ELSE UNCHANGED <<co, inbox>>
    /\ UNCHANGED <<worker_alive, completions, execvars, noncovars>>

\* How many queue_command signals the workers got, all clusters together.
Delivered ==
    LET n[k \in 0..Len(supported_clusters)] ==
            IF k = 0 THEN 0 ELSE n[k - 1] + Len(inbox[supported_clusters[k]])
    IN n[Len(supported_clusters)]

\* The signal handler command_completed, sent by a worker for a command it
\* was given.
CommandCompleted ==
    /\ co.pc # "completed"
    /\ completions < Delivered
    /\ completions' = completions + 1
    /\ \E success \in BOOLEAN :
         co' = [co EXCEPT !.total_commands_failed = IF success THEN @ ELSE @ + 1]
    /\ UNCHANGED <<worker_alive, inbox, received, last_command, execvars, noncovars>>

\* The signal handler shutdown of the coordinator.
CoordinatorShutdown ==
    /\ co.is_running
    /\ co.pc # "completed"
    /\ co' = [co EXCEPT !.is_running = FALSE]
    /\ at_shutdown' = [k \in Clusters |-> IF executing[k] THEN "running" ELSE "none"]
    /\ UNCHANGED <<worker_alive, inbox, received, last_command, completions,
                   executing, done, noncovars>>

\* The command that was running in the worker of `cluster_context` when the
\* coordinator got the shutdown signal, if there is one, has ended as `fate`.
Fate(cluster_context, fate) ==
    IF at_shutdown[cluster_context] = "running"
    THEN [at_shutdown EXCEPT ![cluster_context] = fate]
    ELSE at_shutdown

\* A cluster worker workflow ends: it was shut down, it failed or it was
\* terminated.
WorkerTerminates ==
    /\ \E cluster_context \in Clusters :
         /\ worker_alive[cluster_context]
         /\ worker_alive' = [worker_alive EXCEPT ![cluster_context] = FALSE]
         /\ executing' = [executing EXCEPT ![cluster_context] = FALSE]
         /\ at_shutdown' = Fate(cluster_context, "worker_ended")
    /\ UNCHANGED <<co, inbox, received, last_command, completions, done, noncovars>>

\* ClusterWorkerWorkflow._process_command_queue, seen from the coordinator:
\* a running worker that is not busy takes the next command it was sent and
\* awaits the child workflow that executes it.
WorkerStartsCommand ==
    /\ \E cluster_context \in Clusters :
         /\ worker_alive[cluster_context]
         /\ ~executing[cluster_context]
         /\ done[cluster_context] < Len(inbox[cluster_context])
         /\ executing' = [executing EXCEPT ![cluster_context] = TRUE]
    /\ UNCHANGED <<co, worker_alive, inbox, received, last_command, completions,
                   done, at_shutdown, noncovars>>

\* The child workflow of the command ends on its own, with a result or an
\* error, and the worker is free again.
WorkerFinishesCommand ==
    /\ \E cluster_context \in Clusters :
         /\ worker_alive[cluster_context]
         /\ executing[cluster_context]
         /\ executing' = [executing EXCEPT ![cluster_context] = FALSE]
         /\ done' = [done EXCEPT ![cluster_context] = @ + 1]
         /\ at_shutdown' = Fate(cluster_context, "finished")
    /\ UNCHANGED <<co, worker_alive, inbox, received, last_command, completions, noncovars>>

\* run() of the coordinator has returned.  The cluster workers are its child
\* workflows, started by start_child_workflow without a parent_close_policy:
\* the runtime's default policy terminates a child whose parent has closed,
\* and with the worker the child workflow of the command it awaits.  The
\* runtime does so some time after the parent closed, one child at a time.
ParentClosed ==
    /\ co.pc = "completed"
    /\ \E cluster_context \in Clusters :
         /\ worker_alive[cluster_context]
         /\ worker_alive' = [worker_alive EXCEPT ![cluster_context] = FALSE]
         /\ executing' = [executing EXCEPT ![cluster_context] = FALSE]
         /\ at_shutdown' = Fate(cluster_context, "terminated")
    /\ UNCHANGED <<co, inbox, received, last_command, completions, done, noncovars>>

vars == <<podvars, qvars, keyvars, covars, bufvars>>

\* ------------------------------------------------------ specifications
\* The files a pod holds when the alert fires.
DumpStates == {NoFile, [exists |-> TRUE, size |-> 1, gz |-> FALSE]}

WorkflowIdle ==
    /\ di = 1
    /\ all_discovery_results = <<>>
    /\ all_processed_pods = <<>>
    /\ aws_credentials = 0
    /\ pi = 0
    /\ fi = 0
    /\ cur = FreshCur
    /\ all_processing_results = <<>>
    /\ wf_result = NoResult
    /\ events = <<>>

KcIdle ==
    [pc |-> "idle", command_type |-> "", simulate_long_running |-> FALSE,
     sleep_minutes |-> 0, minute |-> 0, heartbeat_count |-> 0,
     is_cancelled |-> FALSE, cancelled_at |-> "none",
     response |-> [status |-> "none", success |-> FALSE]]

DcallIdle ==
    [pc |-> "idle", pod |-> "", exists |-> FALSE, files |-> {},
     marker_size |-> 0, unstattable |-> {},
     o |-> [dir |-> TRUE, probe |-> TRUE, find |-> TRUE],
     result |-> CrashDumpDiscoveryResult(<<>>, FALSE, ""), keys |-> <<>>]

KeyIdle ==
    key_calls = <<>> /\ activity_calls = <<>> /\ kc = KcIdle /\ dcall = DcallIdle

\* No worker is running and no signal was sent when the coordinator starts.
CoordinatorIdle ==
    /\ co = CoordinatorStarted
    /\ worker_alive = [k \in Clusters |-> FALSE]
    /\ inbox = [k \in Clusters |-> <<>>]
    /\ received = 0
    /\ last_command = NoRequest
    /\ completions = 0
    /\ executing = [k \in Clusters |-> FALSE]
    /\ done = [k \in Clusters |-> 0]
    /\ at_shutdown = [k \in Clusters |-> "none"]

\* ---------------------------------------------------------------------
\* The alert buffer (alert_buffer/models.py, storage.py, manager.py).
\* ---------------------------------------------------------------------

\* AlertBufferConfig.max_buffer_size (1000 in the source), the number of
\* store_alert calls and of flushes a behaviour makes.
MaxBufferSize == 2

MaxStored == 3

MaxFlushes == 2

\* The retry limit that can_retry compares retry_count with.
RetryLimit == 3

\* AlertBufferStatus.
BUFFERED == "buffered"

PROCESSING == "processing"

PROCESSED == "processed"

FAILED == "failed"

EXPIRED == "expired"

\* BufferedAlert as store_alert receives it from from_webhook_data.  The
\* buffer ids are handed out in the order of the calls, and so is
\* buffered_at: an alert with a smaller id was buffered earlier.
BufferedAlert(id) == [buffer_id |-> id, status |-> BUFFERED, retry_count |-> 0]

\* is_expired: now is after expires_at, which is buffered_at plus the
\* expiry time.  Time only moves forward, so the alerts that are past
\* their expiry are the ones buffered up to some moment.
is_expired(alert, upto) == alert.buffer_id <= upto

can_retry(alert, upto) ==
    /\ alert.status \in {FAILED, BUFFERED}
    /\ ~is_expired(alert, upto)
    /\ alert.retry_count < RetryLimit

mark_processing(alert) == [alert EXCEPT !.status = PROCESSING]

mark_processed(alert) == [alert EXCEPT !.status = PROCESSED]

mark_failed(alert) ==
    [alert EXCEPT !.status = FAILED, !.retry_count = alert.retry_count + 1]

mark_expired(alert) == [alert EXCEPT !.status = EXPIRED]

\* The smallest of a non-empty set of ids.
MinId(ids) == CHOOSE id \in ids : \A other \in ids : id <= other

\* The alert that was buffered first, whatever its status.
_find_oldest_alert(stored_alerts) ==
    IF DOMAIN stored_alerts = {} THEN 0 ELSE MinId(DOMAIN stored_alerts)

\* _find_oldest_removable_alert: the processed or expired alert that was
\* buffered first, 0 for None.
_find_oldest_removable_alert(stored_alerts) ==
    LET removable == {id \in DOMAIN stored_alerts :
                        stored_alerts[id].status \in {PROCESSED, EXPIRED}}
    IN  IF removable = {} THEN 0 ELSE MinId(removable)

\* del alerts[id] and alerts[id] = alert on the loaded dictionary.
Without(stored_alerts, ids) ==
    [id \in DOMAIN stored_alerts \ ids |-> stored_alerts[id]]

With(stored_alerts, alert) ==
    [id \in DOMAIN stored_alerts \cup {alert.buffer_id} |->
        IF id = alert.buffer_id THEN alert ELSE stored_alerts[id]]

\* The alerts of a set of ids in the order of the dictionary, which is
\* the order they were stored in.
RECURSIVE InOrder(_, _)
InOrder(stored_alerts, ids) ==
    IF ids = {} THEN <<>>
    ELSE <<stored_alerts[MinId(ids)]>>
             \o InOrder(stored_alerts, ids \ {MinId(ids)})

get_buffered_alerts(stored_alerts) ==
    InOrder(stored_alerts,
            {id \in DOMAIN stored_alerts : stored_alerts[id].status = BUFFERED})

get_failed_alerts(stored_alerts, upto) ==
    InOrder(stored_alerts,
            {id \in DOMAIN stored_alerts :
                /\ stored_alerts[id].status = FAILED
                /\ can_retry(stored_alerts[id], upto)})

\* update_alert_status: an alert that is not stored is left alone, and so
\* is the file when the save raises (the call returns False in both cases,
\* which its callers do not look at).
update_alert_status(stored_alerts, id, status, save_ok) ==
    IF id \notin DOMAIN stored_alerts \/ ~save_ok THEN stored_alerts
    ELSE [stored_alerts EXCEPT ![id] =
            CASE status = PROCESSING -> mark_processing(@)
              [] status = PROCESSED -> mark_processed(@)
              [] status = FAILED -> mark_failed(@)
              [] status = EXPIRED -> mark_expired(@)
              [] OTHER -> @]

NoAlert == [buffer_id |-> 0, status |-> "none", retry_count |-> 0]

FlushIdle == [pc |-> "idle", batch |-> <<>>, alert |-> NoAlert, count |-> 0]

NoStore == [buffer_id |-> 0, returned |-> FALSE, evicted |-> NoAlert]

\* The alert buffer is empty and no flush is running.
BufferIdle ==
    /\ alerts = <<>>
    /\ stored = 0
    /\ expired_upto = 0
    /\ flush = FlushIdle
    /\ handed = [id \in 1..MaxStored |-> 0]
    /\ last_store = NoStore

WorkerIdle ==
    /\ cw = WorkerStarted
    /\ sent = 0
    /\ last_signal = NoCommand
    /\ dispatched = <<>>
    /\ inflight = 0
    /\ reports = <<>>

\* One invocation of the workflow for the pods of the alert.
InitPipeline ==
    /\ heapdump_dir \in [PodSet -> BOOLEAN]
    /\ fs \in [PodSet -> [FileNames -> DumpStates]]
    /\ \A p \in PodSet : ~heapdump_dir[p] => \A n \in FileNames : fs[p][n] = NoFile
    /\ rewrites = 0
    /\ del = DelIdle
    /\ wf_pc = "discover"
    /\ WorkflowIdle
    /\ WorkerIdle
    /\ KeyIdle
    /\ CoordinatorIdle
    /\ BufferIdle

\* One call of safely_delete_file with any arguments, on any file of one pod.
InitDelete ==
    /\ heapdump_dir = [p \in PodSet |-> TRUE]
    /\ rewrites = 0
    /\ \E name \in FileNames, st \in FileStates :
         fs = [p \in PodSet |-> [n \in FileNames |->
                  IF p = Pods[1] /\ n = name THEN st ELSE NoFile]]
    /\ \E name \in FileNames, size \in Sizes, verified \in BOOLEAN :
         del = DelStarted(Pods[1], name, size, verified)
    /\ wf_pc = "none"
    /\ WorkflowIdle
    /\ WorkerIdle
    /\ KeyIdle
    /\ CoordinatorIdle
    /\ BufferIdle

Init == InitPipeline \/ InitDelete

Next ==
    \/ Discover
    \/ GetCredentials
    \/ Compress
    \/ Upload
    \/ Verify
    \/ DeleteReturned
    \/ DelStart
    \/ DelProbe
    \/ DelStat
    \/ DelRm
    \/ DelReprobe
    \/ Rewrite

Spec == Init /\ [][Next]_vars

\* ------------------------------------------------- the destination key
\* How many destination keys are computed.
MaxKeyCalls == 2

\* File names with the file_type the discovery gives them by their ending.
KeyFiles ==
    {<<Marker, "java_pid1.hprof">>, <<"heap2.hprof", "additional_hprof">>,
     <<Sibling, "jfr">>, <<"core.dump", "unknown">>, <<"hs_err.log", "unknown">>}

\* _process_single_crash_dump computes the destination key of one file.
ComputeKey ==
    /\ Len(key_calls) < MaxKeyCalls
    /\ \E pod \in PodSet, f \in KeyFiles, size \in Sizes :
         LET crash_dump == CrashDumpFile(pod, f[1], size, f[2])
         IN key_calls' = Append(key_calls,
                                [pod |-> pod, crash_dump |-> crash_dump,
                                 s3_key |-> S3Key(pod, crash_dump)])
    /\ UNCHANGED <<activity_calls, kc, dcall, nonkeyvars>>

InitKey ==
    /\ heapdump_dir = [p \in PodSet |-> FALSE]
    /\ fs = [p \in PodSet |-> [n \in FileNames |-> NoFile]]
    /\ rewrites = 0
    /\ del = DelIdle
    /\ wf_pc = "none"
    /\ WorkflowIdle
    /\ WorkerIdle
    /\ KeyIdle
    /\ CoordinatorIdle
    /\ BufferIdle

NextKey == ComputeKey

SpecKey == InitKey /\ [][NextKey]_vars

\* The coordinator, its cluster workers and the signals it receives.
InitCoordinator ==
    /\ heapdump_dir = [p \in PodSet |-> FALSE]
    /\ fs = [p \in PodSet |-> [n \in FileNames |-> NoFile]]
    /\ rewrites = 0
    /\ del = DelIdle
    /\ wf_pc = "none"
    /\ WorkflowIdle
    /\ WorkerIdle
    /\ KeyIdle
    /\ CoordinatorIdle
    /\ BufferIdle

NextCoordinator ==
    \/ StartClusterWorkflow
    \/ CoordinatorLoop
    \/ CoordinatorWakeUp
    \/ ExecuteCommand
    \/ CommandCompleted
    \/ CoordinatorShutdown
    \/ WorkerTerminates
    \/ ParentClosed

SpecCoordinator == InitCoordinator /\ [][NextCoordinator]_vars

\* run() of the coordinator is scheduled by the runtime and its timers fire:
\* the steps of run() are taken when they stay possible.  Signals and the
\* end of a worker come from outside and are under no such obligation.
FairSpecCoordinator ==
    /\ SpecCoordinator
    /\ WF_vars(StartClusterWorkflow)
    /\ WF_vars(CoordinatorLoop)
    /\ WF_vars(CoordinatorWakeUp)

\* The coordinator together with the command executions of its workers.
NextShutdown ==
    \/ NextCoordinator
    \/ WorkerStartsCommand
    \/ WorkerFinishesCommand

SpecShutdown == InitCoordinator /\ [][NextShutdown]_vars

\* ----------------------------------------- activities called on their own
\* How many activity calls one behaviour makes.
MaxActivityCalls == 2

\* The keys an upload result dictionary may hold, and the dictionaries: each
\* key may be missing.
UploadKeys == {"success", "s3_key", "error_message"}

UploadDicts ==
    LET full == [success : BOOLEAN, s3_key : {<<"db-0", ".jfr">>},
                 error_message : {<<>>, <<"stderr">>}]
    IN {[k \in keys |-> f[k]] : f \in full, keys \in SUBSET UploadKeys}

\* The activity verify_s3_upload, called with any upload result dictionary.
VerifyCall ==
    /\ Len(activity_calls) < MaxActivityCalls
    /\ \E s3_upload_result \in UploadDicts :
         activity_calls' =
             Append(activity_calls,
                    [activity |-> "verify_s3_upload",
                     args |-> s3_upload_result,
                     result |-> verify_s3_upload(s3_upload_result)])
    /\ UNCHANGED <<key_calls, kc, dcall, nonkeyvars>>

\* The activity upload_file_to_s3, called on a compressed file.  copy_ok: the
\* helper script reached the pod; exit_ok: the command that runs the helper
\* exited 0 (a transport failure or a timeout of the command comes back from
\* execute_command_in_pod_simple as exit code 1 with the error as stderr).
UploadCall ==
    /\ Len(activity_calls) < MaxActivityCalls
    /\ \E pod \in PodSet, copy_ok \in BOOLEAN, exit_ok \in BOOLEAN,
          stderr \in Stderrs(Sibling) :
         LET s3_key == <<pod, ".jfr">>
         IN activity_calls' =
                Append(activity_calls,
                       [activity |-> "upload_file_to_s3",
                        args |-> [s3_key |-> s3_key, copy_ok |-> copy_ok,
                                  exit_ok |-> exit_ok, stderr |-> stderr],
                        result |-> upload_file_to_s3(s3_key, copy_ok, exit_ok,
                                                     stderr)])
    /\ UNCHANGED <<key_calls, kc, dcall, nonkeyvars>>

InitActivities == InitKey

NextActivities ==
    \/ VerifyCall
    \/ UploadCall

SpecActivities == InitActivities /\ [][NextActivities]_vars

\* ------------------------------ discover_crash_dumps called on its own
\* The files a heapdump directory may hold: the marker file, a second heap
\* dump, a heap dump in a subdirectory, a flight recording, a compressed
\* flight recording and a log.
DirNames ==
    {Marker, "heap2.hprof", "sub/java_pid1.hprof", Sibling, "rec.jfr.gz",
     "hs_err.log"}

\* The order in which `find` lists them.
DirOrder ==
    <<"heap2.hprof", Marker, "rec.jfr.gz", Sibling, "hs_err.log",
      "sub/java_pid1.hprof">>

\* find ... -type f ( -name *.hprof -o -name *.jfr ) ! -name *.gz
FindMatches(name) ==
    /\ Extension(name) = "hprof" \/ Extension(name) = "jfr"
    /\ Extension(name) # "gz"

FindIn(files) == SelectSeq(DirOrder, LAMBDA n : n \in files /\ FindMatches(n))

\* What get_file_info_in_pod answers for each file of the directory.
FileInfoIn(d) ==
    [n \in DirNames |->
        IF n \in d.files /\ n \notin d.unstattable
        THEN [ok |-> TRUE, size |-> IF n = Marker THEN d.marker_size ELSE 1]
        ELSE [ok |-> FALSE, size |-> 0]]

\* The directories and probe outcomes one call may meet.
DiscoveryInputs ==
    {d \in [pc : {"called"}, pod : PodSet, exists : BOOLEAN,
            files : SUBSET DirNames, marker_size : Sizes,
            unstattable : SUBSET DirNames,
            o : [dir : BOOLEAN, probe : BOOLEAN, find : BOOLEAN],
            result : {DcallIdle.result}, keys : {<<>>}] :
        /\ d.unstattable \subseteq d.files
        /\ ~d.exists => d.files = {}}

\* discover_crash_dumps(pod) returns.
DiscoverCall ==
    /\ dcall.pc = "called"
    /\ LET d == dcall
           info == FileInfoIn(d)
           additional_dumps ==
               IF ~d.o.find THEN <<>>
               ELSE FoundAdditional(d.pod, FindIn(d.files), Marker, info)
       IN dcall' = [d EXCEPT !.pc = "discovered",
                       !.result = DiscoveryResult(d.pod, d.o.dir /\ d.exists,
                                      d.o.probe /\ Marker \in d.files,
                                      info[Marker], additional_dumps)]
    /\ UNCHANGED <<key_calls, activity_calls, kc, nonkeyvars>>

\* _process_single_crash_dump computes the destination key of every file of
\* the discovery result, in the order of the list.
KeysOfDiscovery ==
    /\ dcall.pc = "discovered"
    /\ dcall' = [dcall EXCEPT !.pc = "keyed",
                     !.keys = [k \in 1..Len(dcall.result.crash_dumps) |->
                                  S3Key(dcall.pod, dcall.result.crash_dumps[k])]]
    /\ UNCHANGED <<key_calls, activity_calls, kc, nonkeyvars>>

InitDiscovery ==
    /\ heapdump_dir = [p \in PodSet |-> FALSE]
    /\ fs = [p \in PodSet |-> [n \in FileNames |-> NoFile]]
    /\ rewrites = 0
    /\ del = DelIdle
    /\ wf_pc = "none"
    /\ WorkflowIdle
    /\ WorkerIdle
    /\ key_calls = <<>> /\ activity_calls = <<>> /\ kc = KcIdle
    /\ dcall \in DiscoveryInputs
    /\ CoordinatorIdle
    /\ BufferIdle

NextDiscovery ==
    \/ DiscoverCall
    \/ KeysOfDiscovery

SpecDiscovery == InitDiscovery /\ [][NextDiscovery]_vars

\* ------------------------------------------- execute_kubectl_command
\* The longest simulated operation, in minutes (config.max_sleep_minutes).
MaxSleepMinutes == 3

CommandTypes == {"kubectl_test", "hemako_jfr", "hemako_crash_heapdump"}

\* response.status and response.success as execute_kubectl_command returns
\* them: COMPLETED with the command's result, CANCELLED from the
\* `except CancelledError` branch, FAILED from the `except Exception` branch.
Completed == [status |-> "completed", success |-> TRUE]

Cancelled == [status |-> "cancelled", success |-> FALSE]

Failed == [status |-> "failed", success |-> FALSE]

KcReturn(k, response) == [k EXCEPT !.pc = "returned", !.response = response]

\* execute_kubectl_command is started.  The kubectl test returns at once, an
\* unsupported command type raises ValueError, and the two hemako commands
\* begin with `await asyncio.sleep(2)`.
KcStart ==
    /\ kc.pc = "idle"
    /\ \E command_type \in CommandTypes \cup {"unsupported"},
          simulate_long_running \in BOOLEAN,
          sleep_minutes \in 1..MaxSleepMinutes :
         LET k == [kc EXCEPT !.command_type = command_type,
                             !.simulate_long_running = simulate_long_running,
                             !.sleep_minutes = sleep_minutes]
         IN kc' = IF command_type = "kubectl_test" THEN KcReturn(k, Completed)
                  ELSE IF command_type = "unsupported" THEN KcReturn(k, Failed)
                  ELSE [k EXCEPT !.pc = "setup"]
    /\ UNCHANGED <<key_calls, activity_calls, dcall, nonkeyvars>>

\* The runtime asks the running activity to cancel: activity.is_cancelled()
\* is true from now on.
KcCancelRequested ==
    /\ kc.pc \in {"setup", "check", "sleep"}
    /\ ~kc.is_cancelled
    /\ kc' = [kc EXCEPT !.is_cancelled = TRUE]
    /\ UNCHANGED <<key_calls, activity_calls, dcall, nonkeyvars>>

\* The setup sleep is over: heartbeat, then _simulate_long_running_operation
\* when config.simulate_long_running is set, else the result.
KcSetupDone ==
    /\ kc.pc = "setup"
    /\ kc' = IF kc.simulate_long_running
             THEN [kc EXCEPT !.pc = "check"]
             ELSE KcReturn([kc EXCEPT !.heartbeat_count = 1], Completed)
    /\ UNCHANGED <<key_calls, activity_calls, dcall, nonkeyvars>>

\* The head of one turn of the loop in _simulate_long_running_operation:
\* `if activity.is_cancelled(): raise CancelledError(...)`, which
\* execute_kubectl_command catches and reports; else heartbeat and sleep.
KcCheck ==
    /\ kc.pc = "check"
    /\ kc' = IF kc.is_cancelled
             THEN KcReturn([kc EXCEPT !.cancelled_at = "check"], Cancelled)
             ELSE [kc EXCEPT !.pc = "sleep", !.heartbeat_count = @ + 1]
    /\ UNCHANGED <<key_calls, activity_calls, dcall, nonkeyvars>>

\* `await asyncio.sleep(60)` is over: the next turn, or the result.
KcMinuteDone ==
    /\ kc.pc = "sleep"
    /\ kc' = IF kc.minute + 1 < kc.sleep_minutes
             THEN [kc EXCEPT !.pc = "check", !.minute = @ + 1]
             ELSE KcReturn([kc EXCEPT !.minute = @ + 1], Completed)
    /\ UNCHANGED <<key_calls, activity_calls, dcall, nonkeyvars>>

\* The runtime cancels the task of an asynchronous activity: the await the
\* activity is suspended in raises asyncio.CancelledError.  That error is
\* neither temporalio.exceptions.CancelledError nor an Exception, so it
\* passes both except branches of execute_kubectl_command, whose finally
\* branch runs, and the activity ends without a response.
KcAwaitCancelled ==
    /\ kc.pc \in {"setup", "sleep"}
    /\ kc.is_cancelled
    /\ kc' = [kc EXCEPT !.pc = "raised", !.cancelled_at = "await"]
    /\ UNCHANGED <<key_calls, activity_calls, dcall, nonkeyvars>>

InitCommand == InitKey

NextCommand ==
    \/ KcStart
    \/ KcCancelRequested
    \/ KcSetupDone
    \/ KcCheck
    \/ KcMinuteDone
    \/ KcAwaitCancelled

SpecCommand == InitCommand /\ [][NextCommand]_vars

\* One cluster worker and the signals it receives.
InitQueue ==
    /\ heapdump_dir = [p \in PodSet |-> FALSE]
    /\ fs = [p \in PodSet |-> [n \in FileNames |-> NoFile]]
    /\ rewrites = 0
    /\ del = DelIdle
    /\ wf_pc = "none"
    /\ WorkflowIdle
    /\ WorkerIdle
    /\ KeyIdle
    /\ CoordinatorIdle
    /\ BufferIdle

NextQueue ==
    \/ QueueCommand
    \/ WorkerShutdown
    \/ ProcessCommandQueue
    \/ ChildFinished
    \/ SignalCoordinator
    \/ WakeUp

SpecQueue == InitQueue /\ [][NextQueue]_vars

\* The worker while it is never shut down, scheduled fairly: each step of
\* run() that is possible is eventually taken, the child workflow eventually
\* finishes, and the timer of workflow.sleep eventually fires.
NextQueueRunning ==
    \/ QueueCommand
    \/ ProcessCommandQueue
    \/ ChildFinished
    \/ SignalCoordinator
    \/ WakeUp

FairSpecQueue ==
    /\ InitQueue
    /\ [][NextQueueRunning]_vars
    /\ WF_vars(ProcessCommandQueue)
    /\ WF_vars(ChildFinished)
    /\ WF_vars(SignalCoordinator)
    /\ WF_vars(WakeUp)

\* ---------------------------------------------------------------------
\* The alert buffer: store_alert from the webhook, flush_buffer and
\* cleanup_buffer from the two background workers.
\* ---------------------------------------------------------------------

\* buffer_alert -> store_alert(BufferedAlert.from_webhook_data(...)).  Under
\* the lock: at max_buffer_size the oldest removable alert is deleted, and
\* when there is none the call returns False; then the alert is added and
\* the file is saved.  A save that raises leaves the file as it was and
\* the call returns False.  The file is read as it was last saved.
StoreAlert ==
    /\ stored < MaxStored
    /\ \E save_ok \in BOOLEAN :
        LET alert == BufferedAlert(stored + 1)
            full == Cardinality(DOMAIN alerts) >= MaxBufferSize
            oldest_alert_id == _find_oldest_removable_alert(alerts)
            kept == IF full THEN Without(alerts, {oldest_alert_id}) ELSE alerts
            refused == full /\ oldest_alert_id = 0
            saved == ~refused /\ save_ok
        IN  /\ (refused => save_ok)
            /\ alerts' = IF saved THEN With(kept, alert) ELSE alerts
            /\ last_store' =
                 [buffer_id |-> alert.buffer_id,
                  returned |-> saved,
                  evicted |-> IF saved /\ full THEN alerts[oldest_alert_id]
                              ELSE NoAlert]
    /\ stored' = stored + 1
    /\ UNCHANGED <<expired_upto, flush, handed, nonbufvars>>

\* Time passes the expires_at of the next alert.
TimePasses ==
    /\ expired_upto < stored
    /\ expired_upto' = expired_upto + 1
    /\ UNCHANGED <<alerts, stored, flush, handed, last_store, nonbufvars>>

\* flush_buffer: nothing is done while the agent is not available;
\* otherwise process_buffered_alerts takes the buffered alerts and the
\* failed alerts that can be retried, as they are stored now.
FlushBuffer ==
    /\ flush.pc = "idle"
    /\ flush.count < MaxFlushes
    /\ \E is_agent_available \in BOOLEAN :
        LET all_alerts == IF is_agent_available
                          THEN get_buffered_alerts(alerts)
                                   \o get_failed_alerts(alerts, expired_upto)
                          ELSE <<>>
        IN  flush' = [pc |-> IF all_alerts = <<>> THEN "idle" ELSE "batch",
                      batch |-> all_alerts,
                      alert |-> NoAlert,
                      count |-> flush.count + 1]
    /\ UNCHANGED <<alerts, stored, expired_upto, handed, last_store, nonbufvars>>

\* _process_single_alert up to the call of the processor: the stored alert
\* is marked as processing and the alert of the batch is handed over.
HandToProcessor ==
    /\ flush.pc = "batch"
    /\ LET alert == Head(flush.batch)
       IN  /\ \E save_ok \in BOOLEAN :
                /\ (alert.buffer_id \notin DOMAIN alerts => save_ok)
                /\ alerts' = update_alert_status(alerts, alert.buffer_id,
                                                 PROCESSING, save_ok)
           /\ handed' = [handed EXCEPT ![alert.buffer_id] = @ + 1]
           /\ flush' = [flush EXCEPT !.pc = "processor", !.alert = alert,
                                     !.batch = Tail(flush.batch)]
    /\ UNCHANGED <<stored, expired_upto, last_store, nonbufvars>>

\* The processor returns True, returns False or raises, and the stored
\* alert is marked as processed or as failed, if the save goes through.
ProcessorReturns ==
    /\ flush.pc = "processor"
    /\ \E outcome \in {"success", "failure", "exception"}, save_ok \in BOOLEAN :
        /\ (flush.alert.buffer_id \notin DOMAIN alerts => save_ok)
        /\ alerts' = update_alert_status(alerts, flush.alert.buffer_id,
                        IF outcome = "success" THEN PROCESSED ELSE FAILED,
                        save_ok)
    /\ flush' = [flush EXCEPT
                    !.pc = IF flush.batch = <<>> THEN "idle" ELSE "batch"]
    /\ UNCHANGED <<stored, expired_upto, handed, last_store, nonbufvars>>

\* cleanup_buffer: cleanup_expired_alerts removes every alert past its
\* expiry, cleanup_processed_alerts the processed alerts that were
\* processed before the cutoff.
CleanupBuffer ==
    /\ \E old \in SUBSET {id \in DOMAIN alerts : alerts[id].status = PROCESSED} :
        alerts' = Without(alerts,
                      {id \in DOMAIN alerts : is_expired(alerts[id], expired_upto)}
                          \cup old)
    /\ alerts' # alerts
    /\ UNCHANGED <<stored, expired_upto, flush, handed, last_store, nonbufvars>>

InitBuffer == InitKey

NextBuffer ==
    \/ StoreAlert
    \/ TimePasses
    \/ FlushBuffer
    \/ HandToProcessor
    \/ ProcessorReturns
    \/ CleanupBuffer

SpecBuffer == InitBuffer /\ [][NextBuffer]_vars

\* ------------------------------------------------------------ claims
EventsOf(kind) == SelectSeq(events, LAMBDA e : e.kind = kind)

Requested(kind) == EventsOf(kind) # <<>>

\* C1: a deletion result with deleted = true exists only for a file whose
\* verification result was verified = true; safely_delete_file called with
\* verified = false issues no delete command and returns deleted = false with
\* the reason "S3 upload not verified".
C1_DeletedOnlyIfVerified ==
    /\ \A k \in 1..Len(all_processing_results) :
         LET r == all_processing_results[k]
         IN (r.deletion_result.present /\ r.deletion_result.deleted)
                => r.verification_passed /\ r.upload_result.success
    /\ wf_pc = "await_delete" => del.verified
    /\ ~del.verified =>
         /\ del.rm_issued = {}
         /\ ~del.deleted
         /\ del.pc = "returned" => del.error = "S3 upload not verified"

\* safely_delete_file was called with verified = false and has returned.
C1_Witness ==
    /\ del.pc = "returned"
    /\ ~del.verified
    /\ ~del.deleted
    /\ del.error = "S3 upload not verified"

\* C2: the delete command for the original path is issued only for a
\* verified upload and only after the re-stat of the same call reported the
\* size recorded at discovery.
C2_RmOnlyAfterEqualStat ==
    "orig" \in del.rm_issued =>
        /\ del.verified
        /\ del.stat = "ok"
        /\ del.stat_size = del.file_size

\* C3: when the re-stat reports a size other than the one recorded at
\* discovery, safely_delete_file returns deleted = false with the error
\* "File size changed" and removes neither path.
C3_SizeMismatchRefuses ==
    (del.stat = "ok" /\ del.stat_size # del.file_size) =>
        /\ del.pc = "returned"
        /\ ~del.deleted
        /\ del.error = "File size changed"
        /\ del.rm_issued = {}
        /\ del.removed = {}

\* The re-stat saw another size than the recorded one, and the call returned.
C3_Witness ==
    /\ del.pc = "returned"
    /\ del.stat = "ok"
    /\ del.stat_size # del.file_size
    /\ fs[del.pod][del.name].exists

\* C4: safely_delete_file returns deleted = true only if both the original
\* and the compressed file are absent from the pod when it returns.
C4_DeletedMeansAbsent ==
    (del.pc = "returned" /\ del.deleted) =>
        /\ ~fs[del.pod][del.name].exists
        /\ ~fs[del.pod][del.name].gz

\* No pod had the marker file when the workflow started: none has it now, and
\* no deletion that could have removed one was requested.
NoMarkerAnywhere ==
    /\ \A p \in PodSet : ~fs[p][Marker].exists
    /\ ~Requested("delete")

\* C5: an invocation in which no pod has the marker file requests no
\* credentials and no compress, upload, verify or delete activity, and returns
\* success = true with no uploaded files and every pod listed as processed.
C5_NoMarkerShortCircuit ==
    (wf_pc = "done" /\ NoMarkerAnywhere) =>
        /\ \A kind \in {"credentials", "compress", "upload", "verify", "delete"} :
              ~Requested(kind)
        /\ wf_result.returned
        /\ wf_result.success
        /\ wf_result.uploaded_files = <<>>
        /\ wf_result.processed_pods = Pods

\* A pod's probing said that a file requires upload.
SomeFileRequiresUpload ==
    \E k \in 1..Len(all_discovery_results) :
        /\ all_discovery_results[k].result.requires_upload
        /\ all_discovery_results[k].result.crash_dumps # <<>>

IndexesOf(kind) == {k \in 1..Len(events) : events[k].kind = kind}

\* C6: when at least one file requires upload, the invocation requests the
\* credentials exactly once, after the discovery of every pod and before the
\* first compression, and every file step that takes credentials gets that
\* one set.
C6_CredentialsOnce ==
    (wf_pc = "done" /\ SomeFileRequiresUpload) =>
        /\ Cardinality(IndexesOf("credentials")) = 1
        /\ Cardinality(IndexesOf("discover")) = Len(Pods)
        /\ \A c \in IndexesOf("credentials") :
              /\ \A d \in IndexesOf("discover") : d < c
              /\ \A z \in IndexesOf("compress") : c < z
        /\ \A k \in 1..Len(events) :
              events[k].kind \in {"compress", "upload", "verify"}
                  => events[k].cred = aws_credentials

\* C7: of the commands dispatched by one cluster worker, no two carry the
\* same alert_id, whenever the second of them was signalled: while the first
\* was queued, while it was executing, or after it completed.
C7_AlertDispatchedOnce ==
    \A i, j \in 1..Len(dispatched) :
        dispatched[i].alert_id = dispatched[j].alert_id => i = j

NoDuplicateAlertIds(queue) ==
    \A i, j \in 1..Len(queue) : queue[i].alert_id = queue[j].alert_id => i = j

AlertIdQueued(queue, alert_id) ==
    \E k \in 1..Len(queue) : queue[k].alert_id = alert_id

\* C8: no two entries of the command queue share an alert_id, and a
\* queue_command signal whose alert_id is already in the queue leaves the
\* queue as it was: same length, same order.
C8_NoDuplicateInQueue ==
    /\ [](NoDuplicateAlertIds(cw.command_queue))
    /\ [][(sent' = sent + 1
             /\ AlertIdQueued(cw.command_queue, last_signal'.alert_id))
          => cw'.command_queue = cw.command_queue]_vars

\* The latest signal carried an alert_id that was already queued: the queue
\* holds the earlier command and not the signalled one.
C8_Witness ==
    /\ last_signal.uid = sent
    /\ sent > 1
    /\ \E k \in 1..Len(cw.command_queue) :
         /\ cw.command_queue[k].alert_id = last_signal.alert_id
         /\ cw.command_queue[k].uid < last_signal.uid
    /\ \A k \in 1..Len(cw.command_queue) :
         cw.command_queue[k].uid # last_signal.uid

\* C9: a cluster worker has at most one command execution in flight, and one
\* only while it is suspended in _process_command_queue on that command.
C9_AtMostOneInFlight ==
    /\ inflight <= 1
    /\ inflight = 1 => (cw.processing /\ cw.pc = "child")

\* A command is executing while further commands wait in the queue.
C9_Witness ==
    /\ inflight = 1
    /\ cw.pc = "child"
    /\ Len(cw.command_queue) >= 2

\* C10: the command a dispatch takes from the queue has the highest priority
\* of the commands queued at that moment, and of the queued commands with
\* that priority it is the one signalled first.
C10_DispatchByPriorityThenFifo ==
    [][Len(dispatched') = Len(dispatched) + 1 =>
         LET c == dispatched'[Len(dispatched')]
             queue == cw.command_queue
         IN /\ \E k \in 1..Len(queue) : queue[k] = c
            /\ \A k \in 1..Len(queue) :
                 /\ queue[k].priority <= c.priority
                 /\ queue[k].priority = c.priority => c.uid <= queue[k].uid]_vars

\* The executing command was the last one signalled, and it overtook an
\* earlier command of lower priority that is still queued.
C10_Witness ==
    /\ cw.pc = "child"
    /\ cw.current_command.priority = 1
    /\ \E k \in 1..Len(cw.command_queue) :
         /\ cw.command_queue[k].priority = 0
         /\ cw.command_queue[k].uid < cw.current_command.uid
    /\ sent = cw.current_command.uid

\* The worker is not inside _process_command_queue.
BetweenCommands == cw.pc \in {"loop", "sleep", "completed"}

\* C11: once the execution of a dispatched command is over, whether it
\* returned success, returned failure or raised, a command_completed signal
\* for it has been sent to the coordinator and the worker is free to take the
\* next command.
C11_CompletionReported ==
    BetweenCommands =>
        /\ ~cw.processing
        /\ Len(reports) = Len(dispatched)
        /\ \A k \in 1..Len(dispatched) :
             reports[k].alert_id = dispatched[k].alert_id

EventFor(kind, pod, name) ==
    \E k \in 1..Len(events) :
        /\ events[k].kind = kind
        /\ events[k].pod = pod
        /\ events[k].name = name

\* The upload of the file of this processing result was requested and failed.
UploadFailed(r) ==
    /\ ~r.upload_result.success
    /\ EventFor("upload", r.crash_dump.pod_name, r.crash_dump.file_path)

\* The files the discoveries said to require upload, as <<pod, path>>.
DiscoveredFiles ==
    {f \in PodSet \X FileNames :
        \E k \in 1..Len(all_discovery_results) :
            LET d == all_discovery_results[k]
            IN /\ d.pod = f[1]
               /\ d.result.requires_upload
               /\ \E n \in 1..Len(d.result.crash_dumps) :
                    d.result.crash_dumps[n].file_path = f[2]}

ResultsFor(f) ==
    SelectSeq(all_processing_results,
              LAMBDA r : r.crash_dump.pod_name = f[1] /\ r.crash_dump.file_path = f[2])

Names(entry, file_path) == \E t \in 1..Len(entry) : entry[t] = file_path

\* The results the final result counts as failed, in their order.
FailedResults ==
    SelectSeq(all_processing_results, LAMBDA r : ~r.upload_result.success)

\* C14: the errors list of the final result has one entry for each file
\* whose upload failed, in the order of processing, and none for a file whose
\* upload succeeded; the entry of a failed upload names the file's path.
C14_ErrorsNameFailedFiles ==
    (wf_pc = "done" /\ all_processing_results # <<>>) =>
        /\ Len(wf_result.errors) = Len(FailedResults)
        /\ \A k \in 1..Len(FailedResults) :
             UploadFailed(FailedResults[k]) =>
                 /\ k <= Len(wf_result.errors)
                 /\ Names(wf_result.errors[k], FailedResults[k].crash_dump.file_path)

\* C15: the overall success of a finished invocation is the conjunction of
\* CrashDumpProcessingResult.success over the processed files: upload
\* succeeded, verification passed, and the deletion, if there was one, deleted.
C15_SuccessIsConjunction ==
    (wf_pc = "done" /\ all_processing_results # <<>>) =>
        (wf_result.success <=>
            \A k \in 1..Len(all_processing_results) :
                CrashDumpProcessingResult_success(all_processing_results[k]))

\* C16: the pods of an invocation are processed independently: when the
\* invocation has ended, whatever failed for one pod, the discovery of every
\* pod was requested, and every file a discovery said to require upload has
\* its result in the final result.
C16_PodsIndependent ==
    wf_pc = "done" =>
        /\ \A pod \in PodSet : EventFor("discover", pod, "")
        /\ \A f \in DiscoveredFiles :
             \E k \in 1..Len(wf_result.processing_results) :
                 LET r == wf_result.processing_results[k]
                 IN /\ r.crash_dump.pod_name = f[1]
                    /\ r.crash_dump.file_path = f[2]

\* A remote probe that the discovery of this pod runs fails: the directory
\* listing, the marker's existence test, the marker's stat or the search for
\* siblings (a probe is run only when the ones before it found their object).
ProbeFails(pod, o) ==
    \/ ~o.dir
    \/ heapdump_dir[pod] /\ ~o.probe
    \/ heapdump_dir[pod] /\ fs[pod][Marker].exists /\ ~o.stat
    \/ heapdump_dir[pod] /\ fs[pod][Marker].exists /\ ~o.find

\* C17: whichever remote probe fails in the discovery the workflow is about
\* to run, the discovery returns requires_upload = false and no files.
C17_DiscoveryDegradesToNoUpload ==
    wf_pc = "discover" =>
        \A o \in ProbeOutcomes :
            ProbeFails(Pods[di], o) =>
                /\ discover_crash_dumps(Pods[di], o).crash_dumps = <<>>
                /\ ~discover_crash_dumps(Pods[di], o).requires_upload


\* A step in which the coordinator handles one execute_command signal.
ExecuteCommandStep == received' = received + 1

\* C18: a command whose cluster_context is not a configured cluster is
\* rejected without any effect: no worker's queue receives it, the routed
\* counter, the history and every other field of the coordinator are as
\* before, so the coordinator runs on and routes later commands as if the
\* command had never come.
C18_UnsupportedClusterRejected ==
    [][(ExecuteCommandStep /\ last_command'.cluster_context \notin Clusters) =>
           /\ inbox' = inbox
           /\ co' = co
           /\ worker_alive' = worker_alive]_vars

\* A command for "cX" was just rejected by a coordinator that had routed
\* commands before and is still running.
C18_Witness ==
    /\ last_command.cluster_context \notin Clusters
    /\ received > 0
    /\ Delivered > 0
    /\ co.is_running
    /\ co.pc \in {"loop", "sleep"}

\* An execute_command step that put the command into the queue of `k`.
DeliveredTo(k) == inbox'[k] = Append(inbox[k], last_command')

\* C19: every command for a configured cluster that a running coordinator
\* gets once its boot is over is delivered to exactly one cluster queue, the
\* one of its cluster_context, and the delivery adds one to the routed counter
\* and one entry to the history; no other queue changes.
C19_AcceptedDeliveredExactlyOnce ==
    [][(/\ ExecuteCommandStep
        /\ co.pc \in {"loop", "sleep"} /\ co.is_running
        /\ last_command'.cluster_context \in Clusters) =>
           /\ DeliveredTo(last_command'.cluster_context)
           /\ \A k \in Clusters \ {last_command'.cluster_context} :
                  inbox'[k] = inbox[k]
           /\ co'.total_commands_processed = co.total_commands_processed + 1
           /\ co'.command_history =
                  Append(co.command_history,
                         [alert_id |-> last_command'.alert_id,
                          cluster_context |-> last_command'.cluster_context,
                          correlation_id |-> last_command'.correlation_id])]_vars

\* The part of C19 the code keeps: a command reaches no queue but its own, at
\* most once, and it is counted and recorded exactly when it is delivered.
DeliveryCountedOnce ==
    [][ExecuteCommandStep =>
           /\ \A k \in Clusters :
                  \/ inbox'[k] = inbox[k]
                  \/ k = last_command'.cluster_context /\ DeliveredTo(k)
           /\ IF \E k \in Clusters : inbox'[k] # inbox[k]
              THEN /\ co'.total_commands_processed = co.total_commands_processed + 1
                   /\ Len(co'.command_history) = Len(co.command_history) + 1
              ELSE co' = co]_vars

\* C20: once the boot of a running coordinator is over, a configured cluster
\* without a running worker gets one: at boot every worker is started, and a
\* worker that ends is replaced.
C20_ActorsKeptRunning ==
    \A k \in Clusters :
        (co.pc \in {"loop", "sleep"} /\ co.is_running /\ ~worker_alive[k])
            ~> (worker_alive[k] \/ ~co.is_running)

\* C21: once the coordinator has received the shutdown signal, a command that
\* arrives afterwards is put into no cluster queue.
C21_NoRoutingAfterShutdown ==
    [][(ExecuteCommandStep /\ ~co.is_running) => inbox' = inbox]_vars

\* C22: a command execution that is in flight in a cluster worker when the
\* coordinator is shut down is not interrupted by the coordinator's stopping:
\* no running command is ended with its worker because the coordinator ended.
C22_InFlightSurvivesShutdown ==
    \A k \in Clusters : at_shutdown[k] # "terminated"

\* A step in which the cluster worker, having processed more commands than
\* the threshold, restarts by continue-as-new.
WorkerRestartStep ==
    /\ cw.total_processed > ContinueAsNewThreshold
    /\ cw'.pc = "loop"
    /\ cw.pc # "sleep"

\* C23: when a cluster worker restarts after more than the fixed number of
\* commands, its cumulative counters are carried over: total_processed is what
\* it was, and total_failed is what it was, the failure counted in the same
\* step included.
C23_RestartCarriesCounters ==
    [][WorkerRestartStep =>
           /\ cw'.total_processed = cw.total_processed
           /\ cw'.total_failed \in {cw.total_failed, cw.total_failed + 1}]_vars

\* A step in which the running coordinator makes one maintenance pass.
MaintenanceStep == co.pc = "loop" /\ co.is_running /\ co'.pc # "loop"

CoordinatorRestartStep == co.pc = "loop" /\ co'.pc = "boot"

\* C25: when the coordinator restarts to compact itself, the restarted
\* coordinator carries its cumulative counts: the routed count and the failed
\* count are what they were immediately before the restart.
C25_RestartCarriesCounts ==
    [][CoordinatorRestartStep =>
           /\ co'.total_commands_processed = co.total_commands_processed
           /\ co'.total_commands_failed = co.total_commands_failed]_vars

\* The calls of one activity among the activity calls made so far.
CallsOf(activity) ==
    {activity_calls[k] : k \in {j \in 1..Len(activity_calls) :
                                    activity_calls[j].activity = activity}}

\* C26: for every upload result, verify_s3_upload returns verified equal to
\* the upload's success, FALSE when success is missing, and always the
\* verification-method marker.
C26_VerifiedIsUploadSuccess ==
    \A call \in CallsOf("verify_s3_upload") :
        /\ call.result.verified =
               ("success" \in DOMAIN call.args /\ call.args["success"])
        /\ call.result.verification_method = "flanker_internal"

\* verify_s3_upload was called with a result that lacks `success` and was not
\* verified, and with a successful upload that was.
C26_Witness ==
    /\ \E call \in CallsOf("verify_s3_upload") :
           "success" \notin DOMAIN call.args /\ ~call.result.verified
    /\ \E call \in CallsOf("verify_s3_upload") :
           /\ "success" \in DOMAIN call.args
           /\ call.args["success"]
           /\ call.result.verified

\* A step that is one attempt of compress_file on the current file (and not
\* the JVM writing to the file meanwhile), and whether the attempt returned
\* its result: the workflow goes on to the upload.
CompressStep == wf_pc = "compress" /\ rewrites' = rewrites

CompressReturned == wf_pc' = "upload"

\* C27 as stated: compress_file returns its result if and only if the
\* compressed path exists on the pod after the attempt.
C27_ReturnsIffCompressedExists ==
    [][CompressStep =>
           (CompressReturned <=> fs'[CurPod][CurDump.file_path].gz)]_vars

\* C27, amended: compress_file returns its result only if the compressed path
\* exists on the pod after the attempt, so it raises whenever the path is
\* absent; and no attempt removes or changes the original file.
C27_ReturnsOnlyIfCompressedExists ==
    [][CompressStep =>
           /\ CompressReturned => fs'[CurPod][CurDump.file_path].gz
           /\ fs'[CurPod][CurDump.file_path].exists =
                  fs[CurPod][CurDump.file_path].exists
           /\ fs'[CurPod][CurDump.file_path].size =
                  fs[CurPod][CurDump.file_path].size]_vars

\* compress_file has returned for the current file: the compressed path and
\* the original are both on the pod, and the upload is next.
C27_Witness ==
    /\ wf_pc = "upload"
    /\ fs[CurPod][CurDump.file_path].gz
    /\ fs[CurPod][CurDump.file_path].exists

UploadStep == wf_pc = "upload" /\ rewrites' = rewrites

\* C29: a failed upload is surfaced in the file's outcome only after the
\* attempts of the upload step (3) are used up: an upload attempt that ends
\* the file with upload.success = FALSE is the last attempt allowed, so an
\* upload that fails once and then succeeds ends with success.
C29_UploadRetriedBeforeSurfaced ==
    [][(/\ UploadStep
        /\ Len(all_processing_results') = Len(all_processing_results) + 1
        /\ ~all_processing_results'[Len(all_processing_results')].upload_result.success)
       => cur.attempt = UploadMaxAttempts]_vars

\* C30: a command execution that observes cancellation, at a check between
\* steps or in the await it is suspended in, ends with a response whose status
\* is "cancelled" and whose success is FALSE, never "failed" or "completed".
C30_CancelledIsReportedCancelled ==
    (kc.pc \in {"returned", "raised"} /\ kc.cancelled_at # "none") =>
        /\ kc.pc = "returned"
        /\ kc.response.status = "cancelled"
        /\ ~kc.response.success

\* The part of C30 the code keeps: a cancellation seen by the check between
\* steps is reported as "cancelled", and "cancelled" is reported for nothing
\* else.
CheckedCancellationReported ==
    /\ (kc.pc = "returned" /\ kc.cancelled_at = "check") =>
           kc.response = Cancelled
    /\ kc.response.status = "cancelled" => kc.cancelled_at = "check"

\* Every command of `queue` is also in `later`.
AllQueuedIn(queue, later) ==
    \A k \in 1..Len(queue) : \E j \in 1..Len(later) : later[j] = queue[k]

\* C31: no command is lost when a cluster worker restarts: every command that
\* is in the queue when the worker restarts by continue-as-new is in the queue
\* of the restarted worker, which dispatches it.
C31_QueueSurvivesRestart ==
    [][WorkerRestartStep => AllQueuedIn(cw.command_queue, cw'.command_queue)]_vars

\* The command with this uid is in the worker's queue, accepted and not yet
\* dispatched.
Queued(uid) == \E k \in 1..Len(cw.command_queue) : cw.command_queue[k].uid = uid

WasDispatched(uid) == \E k \in 1..Len(dispatched) : dispatched[k].uid = uid

\* C32: every command accepted into the queue of a cluster worker is
\* eventually dispatched, when every execution terminates, the worker is
\* scheduled fairly and is not shut down.
C32_QueuedEventuallyDispatched ==
    \A uid \in 1..MaxCommands : Queued(uid) ~> WasDispatched(uid)

\* The worker is inside one dispatch: the child workflow runs, or its
\* completion is being reported to the coordinator.
Dispatching == cw.pc \in {"child", "signal_success", "signal_failure"}

\* C33: the processing flag of a cluster worker is true exactly when a current
\* command is recorded, and both hold exactly while a dispatch is under way:
\* after every dispatch, whether the execution returned a result or raised,
\* the flag is false and the current command is cleared.
C33_FlagAgreesWithCurrentCommand ==
    /\ cw.processing <=> cw.current_command # NoCommand
    /\ cw.processing <=> Dispatching

\* A dispatch whose execution raised is over and the worker is idle again,
\* while another command waits in the queue.
C33_Witness ==
    /\ Len(dispatched) = 1
    /\ cw.total_processed = 0
    /\ cw.total_failed = 1
    /\ cw.pc = "sleep"
    /\ ~cw.processing
    /\ cw.current_command = NoCommand
    /\ cw.command_queue # <<>>

\* C34: in every state of a cluster worker total_failed <= total_processed:
\* a dispatched command is counted once as processed and at most once as
\* failed, however its execution and its completion report end.
C34_FailedAtMostProcessed == cw.total_failed <= cw.total_processed

\* C35: within one invocation no two distinct discovered files of the same
\* pod get the same destination key, so that no upload overwrites the remote
\* copy of another file.
C35_DistinctFilesDistinctKeys ==
    dcall.pc = "keyed" =>
        \A i, j \in 1..Len(dcall.keys) :
            dcall.result.crash_dumps[i].file_path # dcall.result.crash_dumps[j].file_path
                => dcall.keys[i] # dcall.keys[j]

\* The file paths of a discovery result, in the order of its list.
PathsOf(result) == [k \in 1..Len(result.crash_dumps) |-> result.crash_dumps[k].file_path]

\* C36: for every discovery result requires_upload is true exactly when the
\* file list is not empty; when it is true the marker file is the first entry
\* and appears nowhere else; and no compressed (.gz) file is in the list.
C36_DiscoveryResultWellFormed ==
    dcall.pc \in {"discovered", "keyed"} =>
        LET paths == PathsOf(dcall.result)
        IN /\ dcall.result.requires_upload <=> paths # <<>>
           /\ dcall.result.requires_upload =>
                  /\ paths[1] = Marker
                  /\ \A k \in 2..Len(paths) : paths[k] # Marker
           /\ \A k \in 1..Len(paths) : Extension(paths[k]) # "gz"

\* A directory that holds the marker file, a compressed file and other dumps
\* was discovered: the marker file leads the list although find listed
\* another file first.
C36_Witness ==
    /\ dcall.pc = "discovered"
    /\ {Marker, "heap2.hprof", "rec.jfr.gz", Sibling} \subseteq dcall.files
    /\ dcall.result.requires_upload
    /\ PathsOf(dcall.result) = <<Marker, "heap2.hprof", Sibling>>

\* The marker file of the discovered directory was found and its stat worked.
MarkerDiscovered ==
    /\ dcall.pc \in {"discovered", "keyed"}
    /\ dcall.exists /\ dcall.o.dir /\ dcall.o.probe
    /\ Marker \in dcall.files
    /\ Marker \notin dcall.unstattable

\* C37: when the marker file is present, a sibling whose stat fails is left
\* out and nothing else is: the discovery returns requires_upload = TRUE with
\* the marker file followed by every sibling find listed whose stat worked, in
\* the order of find; when the sibling search itself fails, the marker file
\* alone is returned.
C37_SiblingFailuresOnlyOmit ==
    MarkerDiscovered =>
        /\ dcall.result.requires_upload
        /\ PathsOf(dcall.result) =
               <<Marker>> \o
               (IF dcall.o.find
                THEN SelectSeq(FindIn(dcall.files),
                               LAMBDA n : n # Marker /\ n \notin dcall.unstattable)
                ELSE <<>>)

\* The stat of one sibling failed while the stat of another worked: only the
\* first is missing from the result.
C37_Witness ==
    /\ MarkerDiscovered
    /\ dcall.o.find
    /\ {"heap2.hprof", Sibling} \subseteq dcall.files
    /\ dcall.unstattable = {"heap2.hprof"}
    /\ PathsOf(dcall.result) = <<Marker, Sibling>>

\* The stages of one file, in the order of _process_single_crash_dump.
StageRank(kind) ==
    CASE kind = "compress" -> 1
      [] kind = "upload" -> 2
      [] kind = "verify" -> 3
      [] kind = "delete" -> 4
      [] OTHER -> 0

\* The stage requests of the invocation, in the order they were made.
StageEvents == SelectSeq(events, LAMBDA e : StageRank(e.kind) > 0)

SameFile(e1, e2) == e1.pod = e2.pod /\ e1.name = e2.name

StoreStep == stored' = stored + 1

RemovedByStep == DOMAIN alerts \ DOMAIN alerts'

StoreRefusedAtCapacity ==
    /\ last_store.buffer_id > 0
    /\ ~last_store.returned
    /\ Cardinality(DOMAIN alerts) = MaxBufferSize
    /\ \A id \in DOMAIN alerts : alerts[id].status \notin {PROCESSED, EXPIRED}

\* A step that hands an alert to the processor, and the alert as it is
\* stored when it is handed over (the alert of the batch when it is not
\* stored any more).
HandedByStep(id) == handed'[id] = handed[id] + 1

AlertAtHanding(id) == IF id \in DOMAIN alerts THEN alerts[id] ELSE Head(flush.batch)

\* C40: an alert is handed to the processor at most 3 times in total, and
\* an alert is not handed to the processor when its retry_count is 3 or
\* more, when it is past its expiry or when it has been processed.
C40_HandedOnlyWhileRetryable ==
    [][\A id \in 1..MaxStored :
        HandedByStep(id) =>
            /\ handed'[id] <= RetryLimit
            /\ AlertAtHanding(id).retry_count < RetryLimit
            /\ ~is_expired(AlertAtHanding(id), expired_upto)
            /\ AlertAtHanding(id).status # PROCESSED]_vars

\* An alert that is handed to the processor has a retry_count below the
\* limit and is not processed.
HandedBelowLimitAndUnprocessed ==
    [][\A id \in 1..MaxStored :
        HandedByStep(id) =>
            /\ AlertAtHanding(id).retry_count < RetryLimit
            /\ AlertAtHanding(id).status # PROCESSED]_vars

====
